---- MODULE Spec2Model ----
(***************************************************************************)
(* The branch rebase engine of tree2 (core/rebase/utils.ts): the commit    *)
(* graph, the ancestor finders, rebaseBranch and rebaseChange.             *)
(*                                                                         *)
(* A commit is a record [revision, sessionId, change, parent]; the graph   *)
(* is the sequence of all commit objects ever created and a commit's       *)
(* identity is its index in that sequence (parent = 0: no parent).         *)
(* The change algebra is supplied by the caller; it is modelled by the     *)
(* free term algebra, of which the integer counter algebra is the          *)
(* interpretation Eval.                                                    *)
(***************************************************************************)
EXTENDS Integers, Sequences, FiniteSets, TLC

VARIABLES graph, nextTag, call, result, log, pc,
          manager, containerRuntime, outcome,
          ordererMap, orderers, callers, closing, cleared,
          checkpointManager, opCollection, documentRepository,
          checkpointRepository, writeCall

vars == <<graph, nextTag, call, result, log, pc,
          manager, containerRuntime, outcome,
          ordererMap, orderers, callers, closing, cleared,
          checkpointManager, opCollection, documentRepository,
          checkpointRepository, writeCall>>

\* the variables of the rebase engine
rebaseVars == <<graph, nextTag, call, result, log, pc>>
\* the PendingStateManager, the ContainerRuntime it was constructed with and
\* what the last call on the manager did
pendingVars == <<manager, containerRuntime, outcome>>
\* the LocalOrdererManager: its map, the promises createLocalOrderer has
\* returned, what the getOrderer calls were handed, the close() under way
\* and how often the map was cleared
ordererVars == <<ordererMap, orderers, callers, closing, cleared>>
\* the CheckpointManager, the collections it writes to and the write call
\* under way
checkpointVars == <<checkpointManager, opCollection, documentRepository,
                    checkpointRepository, writeCall>>
\* everything that is not the rebase engine
componentVars == <<pendingVars, ordererVars, checkpointVars>>
\* everything that is not the PendingStateManager
notPendingVars == <<rebaseVars, ordererVars, checkpointVars>>
\* everything that is not the LocalOrdererManager
notOrdererVars == <<rebaseVars, pendingVars, checkpointVars>>
\* everything that is not the CheckpointManager
notCheckpointVars == <<rebaseVars, pendingVars, ordererVars>>

\* no PendingStateManager has been constructed
PendingIdle ==
    /\ manager = <<>>
    /\ containerRuntime = <<>>
    /\ outcome = <<>>

\* no close() is under way
NotClosing == [active |-> FALSE, awaiting |-> {}, failed |-> FALSE]

\* a LocalOrdererManager after construction (localOrdererManager.ts, line 29)
OrdererInit ==
    /\ ordererMap = {}
    /\ orderers = <<>>
    /\ callers = <<>>
    /\ closing = NotClosing
    /\ cleared = 0

\* no write call is under way
NoWrite ==
    [pc |-> "idle", checkpoint |-> 0, protocolHead |-> 0, pending |-> {},
     noActiveClients |-> FALSE, retryCount |-> 0, inserted |-> "no",
     checkpointWrite |-> "no", deleteIssued |-> FALSE]

\* no CheckpointManager is in use
CheckpointIdle ==
    /\ checkpointManager = [localCheckpointEnabled |-> FALSE]
    /\ opCollection = {}
    /\ documentRepository = 0
    /\ checkpointRepository = 0
    /\ writeCall = NoWrite

\* no other component is in use
ComponentsIdle ==
    /\ PendingIdle
    /\ OrdererInit
    /\ CheckpointIdle

(***************************************************************************)
(* Bounds of the model.                                                    *)
(***************************************************************************)
\* longest target chain below the root
MaxTarget == 2
\* longest source chain below the root
MaxSource == 2
\* the algebra may throw at its 1st .. MaxFail-th call
MaxFail == 2

(***************************************************************************)
(* Sequence helpers (Array.prototype.findIndex, splice(0, k), slice).      *)
(***************************************************************************)
\* 1-based index of the first element equal to x, 0 when there is none
\* (findIndex's -1)
IndexOf(seq, x) ==
    IF \E i \in 1..Len(seq) : seq[i] = x
    THEN CHOOSE i \in 1..Len(seq) : seq[i] = x /\ \A j \in 1..(i - 1) : seq[j] # x
    ELSE 0

\* seq without its first k elements
Drop(seq, k) == SubSeq(seq, k + 1, Len(seq))

\* the first k elements of seq
Take(seq, k) == SubSeq(seq, 1, k)

\* the elements of seq as a set
Range(seq) == {seq[i] : i \in 1..Len(seq)}

Min(a, b) == IF a < b THEN a ELSE b

Max(a, b) == IF a > b THEN a ELSE b

(***************************************************************************)
(* The change algebra (ChangeRebaser): free terms.                         *)
(***************************************************************************)
\* TChange | undefined: the absent cumulative change
Undefined == <<"undefined">>

\* a payload authored by a client
BaseChange(n) == <<"base", n>>

\* TaggedChange of a commit: the commit itself seen as {revision, change}
Tagged(c) == [revision |-> c.revision, change |-> c.change, rollbackOf |-> 0]

\* changeRebaser.rebase(change, over)
Rebase(change, over) == <<"rebase", change, over>>

\* changeRebaser.invert(commit, isRollback)
Invert(c, isRollback) == <<"invert", c.revision, c.change, isRollback>>

\* changeRebaser.compose(changes)
Compose(changes) == <<"compose", changes>>

\* tagRollbackInverse(inverse, newTag, rolledBackTag)
tagRollbackInverse(inverse, newTag, rolledBack) ==
    [revision |-> newTag, change |-> inverse, rollbackOf |-> rolledBack]

\* mintRevisionTag(): the tags handed out are nextTag, nextTag + 1, ...
mintRevisionTag(next) == next

\* mintCommit(parent, commit): a copy of commit on a new parent
mintCommit(parent, c) ==
    [revision |-> c.revision, sessionId |-> c.sessionId, change |-> c.change,
     parent |-> parent]

(***************************************************************************)
(* findCommonAncestor.  A descendant argument is [commit, hasPath, path]:  *)
(* commit = 0 is undefined, hasPath says whether an out-path array was     *)
(* passed and path is its content at the call.                             *)
(***************************************************************************)
Bare(c) == [commit |-> c, hasPath |-> FALSE, path |-> <<>>]

WithPath(c) == [commit |-> c, hasPath |-> TRUE, path |-> <<>>]

\* lines 360-362 and 367-369, mutated: the assertion is left out
AnyPathAccepted(descendant) == TRUE

\* lines 360-362 and 367-369: assert(path === undefined || path.length === 0)
PathMustBeEmpty(descendant) == ~descendant.hasPath \/ descendant.path = <<>>

\* lines 382-383 and 395-396, mutated: splice(0, index) leaves the ancestor
\* at the front of the path
SpliceBefore(path, ancestor) ==
    IF IndexOf(path, ancestor) = 0 THEN path
    ELSE Drop(path, IndexOf(path, ancestor) - 1)

\* lines 382-383 and 395-396: path.splice(0, path.findIndex(ancestor) + 1)
SpliceThrough(path, ancestor) == Drop(path, IndexOf(path, ancestor))

\* lines 406-411, mutated: the out-path keeps what the walk put in it
LeftAsWalked(path) == path

\* lines 406-411: path.length = 0
Cleared(path) == <<>>

\* the while loop of findCommonAncestor; walked counts the parent links
\* followed
RECURSIVE CommonAncestorWalk(_, _, _, _, _, _, _)
CommonAncestorWalk(g, a, b, visited, pathA, pathB, walked) ==
    IF a = 0 /\ b = 0
    THEN [status |-> "returned", ancestor |-> 0, pathA |-> Cleared(pathA),
          pathB |-> Cleared(pathB), walked |-> walked]
    ELSE IF a # 0 /\ a \in visited
    THEN [status |-> "returned", ancestor |-> a, pathA |-> pathA,
          pathB |-> SpliceThrough(pathB, a), walked |-> walked]
    ELSE LET visitedA == IF a # 0 THEN visited \cup {a} ELSE visited
             pathA1 == IF a # 0 THEN <<a>> \o pathA ELSE pathA
             a1 == IF a # 0 THEN g[a].parent ELSE 0
             walkedA == IF a # 0 THEN walked + 1 ELSE walked
         IN  IF b # 0 /\ b \in visitedA
             THEN [status |-> "returned", ancestor |-> b,
                   pathA |-> SpliceThrough(pathA1, b), pathB |-> pathB,
                   walked |-> walkedA]
             ELSE IF b # 0
             THEN CommonAncestorWalk(g, a1, g[b].parent, visitedA \cup {b},
                                     pathA1, <<b>> \o pathB, walkedA + 1)
             ELSE CommonAncestorWalk(g, a1, 0, visitedA, pathA1, pathB, walkedA)

findCommonAncestor(g, descendantA, descendantB) ==
    LET a == descendantA.commit
        b == descendantB.commit
        res == CommonAncestorWalk(g, a, b, {}, <<>>, <<>>, 0)
    IN  IF ~PathMustBeEmpty(descendantA) \/ ~PathMustBeEmpty(descendantB)
        THEN [status |-> "assert", ancestor |-> 0, pathA |-> descendantA.path,
              pathB |-> descendantB.path, walked |-> 0]
        ELSE IF a = b
        THEN [status |-> "returned", ancestor |-> a, pathA |-> <<>>,
              pathB |-> <<>>, walked |-> 0]
        ELSE [res EXCEPT !.pathA = IF descendantA.hasPath THEN @ ELSE <<>>,
                         !.pathB = IF descendantB.hasPath THEN @ ELSE <<>>]

(***************************************************************************)
(* findAncestor: predicate is "revision = predicateTag" (no commit carries *)
(* tag 0, so predicateTag = 0 is the predicate that never holds).          *)
(***************************************************************************)
\* line 321, mutated: path.push(cur) instead of path.unshift(cur)
RECURSIVE AncestorWalkPushing(_, _, _, _)
AncestorWalkPushing(g, cur, predicateTag, path) ==
    IF cur = 0
    THEN [status |-> "returned", ancestor |-> 0, path |-> <<>>]
    ELSE IF g[cur].revision = predicateTag
    THEN [status |-> "returned", ancestor |-> cur, path |-> path]
    ELSE AncestorWalkPushing(g, g[cur].parent, predicateTag, Append(path, cur))

\* lines 317-327: the loop of findAncestor and the clearing of the path
RECURSIVE AncestorWalk(_, _, _, _)
AncestorWalk(g, cur, predicateTag, path) ==
    IF cur = 0
    THEN [status |-> "returned", ancestor |-> 0, path |-> <<>>]
    ELSE IF g[cur].revision = predicateTag
    THEN [status |-> "returned", ancestor |-> cur, path |-> path]
    ELSE AncestorWalk(g, g[cur].parent, predicateTag, <<cur>> \o path)

findAncestor(g, descendant, predicateTag) ==
    LET res == AncestorWalk(g, descendant.commit, predicateTag, descendant.path)
    IN  [res EXCEPT !.path = IF descendant.hasPath THEN @ ELSE <<>>]

(***************************************************************************)
(* rebaseChangeOverChanges and the algebra calls.  Every call of the       *)
(* algebra is appended to the log; the call number failAt throws           *)
(* (failAt = 0: the algebra never throws).  A running computation is a     *)
(* record whose field threw says that an exception is propagating.         *)
(***************************************************************************)
RebaseCall(change, over) == [op |-> "rebase", change |-> change, over |-> over]

InvertCall(c, isRollback) ==
    [op |-> "invert", revision |-> c.revision, change |-> c.change,
     isRollback |-> isRollback]

ComposeCall(changes) == [op |-> "compose", changes |-> changes]

\* line 270, mutated: a rebase that throws is caught and the fold goes on
\* with the change it had
RECURSIVE rebaseChangeOverChangesCatching(_, _, _, _)
rebaseChangeOverChangesCatching(changeToRebase, changesToRebaseOver, lg, failAt) ==
    IF changesToRebaseOver = <<>>
    THEN [change |-> changeToRebase, log |-> lg, threw |-> FALSE]
    ELSE LET over == Head(changesToRebaseOver)
             lg1 == Append(lg, RebaseCall(changeToRebase, over))
         IN  rebaseChangeOverChangesCatching(
                 IF Len(lg1) = failAt THEN changeToRebase
                 ELSE Rebase(changeToRebase, over),
                 Tail(changesToRebaseOver), lg1, failAt)

\* line 270: changesToRebaseOver.reduce((a, b) => changeRebaser.rebase(a, b),
\* changeToRebase)
RECURSIVE rebaseChangeOverChanges(_, _, _, _)
rebaseChangeOverChanges(changeToRebase, changesToRebaseOver, lg, failAt) ==
    IF changesToRebaseOver = <<>>
    THEN [change |-> changeToRebase, log |-> lg, threw |-> FALSE]
    ELSE LET over == Head(changesToRebaseOver)
             lg1 == Append(lg, RebaseCall(changeToRebase, over))
         IN  IF Len(lg1) = failAt
             THEN [change |-> changeToRebase, log |-> lg1, threw |-> TRUE]
             ELSE rebaseChangeOverChanges(Rebase(changeToRebase, over),
                                          Tail(changesToRebaseOver), lg1, failAt)

(***************************************************************************)
(* rebaseBranch.                                                           *)
(***************************************************************************)
\* line 156, mutated: the new base follows every match, also one behind
\* targetCommit
AdvanceToMatch(newBaseIndex, i) == i

\* line 156: newBaseIndex = Math.max(newBaseIndex, i)
AdvanceNewBase(newBaseIndex, i) == Max(newBaseIndex, i)

\* lines 149-160, mutated: line 155 is left out, a matched tag stays in the
\* sourceSet
RECURSIVE ScanTargetPathKeepingTags(_, _, _, _, _, _)
ScanTargetPathKeepingTags(g, targetPath, i, targetCommitIndex, sourceSet, newBaseIndex) ==
    IF i > Len(targetPath)
    THEN [sourceSet |-> sourceSet, newBaseIndex |-> newBaseIndex]
    ELSE LET revision == g[targetPath[i]].revision
         IN  IF revision \in sourceSet
             THEN ScanTargetPathKeepingTags(g, targetPath, i + 1,
                                            targetCommitIndex, sourceSet,
                                            AdvanceNewBase(newBaseIndex, i))
             ELSE IF i >= targetCommitIndex
             THEN [sourceSet |-> sourceSet, newBaseIndex |-> newBaseIndex]
             ELSE ScanTargetPathKeepingTags(g, targetPath, i + 1,
                                            targetCommitIndex, sourceSet,
                                            newBaseIndex)

\* lines 149-160, mutated: lines 157-159 are left out, the scan never breaks
RECURSIVE ScanTargetPathToEnd(_, _, _, _, _, _)
ScanTargetPathToEnd(g, targetPath, i, targetCommitIndex, sourceSet, newBaseIndex) ==
    IF i > Len(targetPath)
    THEN [sourceSet |-> sourceSet, newBaseIndex |-> newBaseIndex]
    ELSE LET revision == g[targetPath[i]].revision
         IN  IF revision \in sourceSet
             THEN ScanTargetPathToEnd(g, targetPath, i + 1, targetCommitIndex,
                                      sourceSet \ {revision},
                                      AdvanceNewBase(newBaseIndex, i))
             ELSE ScanTargetPathToEnd(g, targetPath, i + 1, targetCommitIndex,
                                      sourceSet, newBaseIndex)

\* lines 149-160: cancel the source tags met on the target path and advance
\* the new base; returns the remaining sourceSet and newBaseIndex
RECURSIVE ScanTargetPath(_, _, _, _, _, _)
ScanTargetPath(g, targetPath, i, targetCommitIndex, sourceSet, newBaseIndex) ==
    IF i > Len(targetPath)
    THEN [sourceSet |-> sourceSet, newBaseIndex |-> newBaseIndex]
    ELSE LET revision == g[targetPath[i]].revision
         IN  IF revision \in sourceSet
             THEN ScanTargetPath(g, targetPath, i + 1, targetCommitIndex,
                                 sourceSet \ {revision},
                                 AdvanceNewBase(newBaseIndex, i))
             ELSE IF i >= targetCommitIndex
             THEN [sourceSet |-> sourceSet, newBaseIndex |-> newBaseIndex]
             ELSE ScanTargetPath(g, targetPath, i + 1, targetCommitIndex,
                                 sourceSet, newBaseIndex)

\* lines 171-177, mutated: the common prefix is left on both paths
StripNothing(g, sourcePath, targetRebasePath, rounds) ==
    [sourcePath |-> sourcePath, targetRebasePath |-> targetRebasePath]

\* lines 171-177: minLength rounds, each shifts both paths when their first
\* revisions agree
RECURSIVE StripCommonPrefix(_, _, _, _)
StripCommonPrefix(g, sourcePath, targetRebasePath, rounds) ==
    IF rounds = 0
    THEN [sourcePath |-> sourcePath, targetRebasePath |-> targetRebasePath]
    ELSE IF g[sourcePath[1]].revision = g[targetRebasePath[1]].revision
    THEN StripCommonPrefix(g, Tail(sourcePath), Tail(targetRebasePath), rounds - 1)
    ELSE StripCommonPrefix(g, sourcePath, targetRebasePath, rounds - 1)

\* lines 184-188, mutated: the loop runs from the last source commit to the
\* first
RECURSIVE ReparentNewestFirst(_, _, _)
ReparentNewestFirst(g, sourcePath, newSourceCommits) ==
    IF sourcePath = <<>>
    THEN [graph |-> g, newSourceCommits |-> newSourceCommits]
    ELSE ReparentNewestFirst(
            Append(g, mintCommit(newSourceCommits[Len(newSourceCommits)],
                                 g[sourcePath[Len(sourcePath)]])),
            Take(sourcePath, Len(sourcePath) - 1),
            Append(newSourceCommits, Len(g) + 1))

\* lines 184-188: reparent the remaining source commits onto the new base
RECURSIVE Reparent(_, _, _)
Reparent(g, sourcePath, newSourceCommits) ==
    IF sourcePath = <<>>
    THEN [graph |-> g, newSourceCommits |-> newSourceCommits]
    ELSE Reparent(
            Append(g, mintCommit(newSourceCommits[Len(newSourceCommits)],
                                 g[Head(sourcePath)])),
            Tail(sourcePath),
            Append(newSourceCommits, Len(g) + 1))

\* lines 210-216, mutated: the source commit is edited in place instead of
\* being copied
RebasedCommitInPlace(g, c, change, newHead) ==
    [g EXCEPT ![c] = [@ EXCEPT !.change = change, !.parent = newHead]]

\* lines 210-216, mutated: the rebased commit stays on the parent of the
\* source commit
RebasedCommitOnSourceParent(g, c, change, newHead) ==
    Append(g, [revision |-> g[c].revision, sessionId |-> g[c].sessionId,
               change |-> change, parent |-> g[c].parent])

\* lines 210-216, mutated: the rebased commit takes the session of the
\* commit it is parented on
RebasedCommitOfParentSession(g, c, change, newHead) ==
    Append(g, [revision |-> g[c].revision, sessionId |-> g[newHead].sessionId,
               change |-> change, parent |-> newHead])

\* lines 210-216, mutated: the new commit keeps the change of the source
\* commit instead of the rebased one
RebasedCommitUnrebased(g, c, change, newHead) ==
    Append(g, [revision |-> g[c].revision, sessionId |-> g[c].sessionId,
               change |-> g[c].change, parent |-> newHead])

\* lines 210-216: the rebased commit is a new object on the running head
RebasedCommit(g, c, change, newHead) ==
    Append(g, [revision |-> g[c].revision, sessionId |-> g[c].sessionId,
               change |-> change, parent |-> newHead])

\* lines 273-282, mutated: the inverse is tagged with the revision of the
\* commit it rolls back
inverseFromCommitKeepingTag(c, next) == tagRollbackInverse(Invert(c, TRUE), c.revision, c.revision)

\* lines 273-282: the rollback inverse of a commit under a newly minted tag
\* (lines 219-221 of rebaseBranch spell out the same expression)
inverseFromCommit(c, next) == tagRollbackInverse(Invert(c, TRUE), mintRevisionTag(next), c.revision)

\* lines 204-222, mutated: lines 219-221 are moved into the if, a commit
\* whose tag left the sourceSet is not inverted
MainPassStepSkippingCancelled(st, c, sourceSet, failAt) ==
    LET g == st.graph
        emit == g[c].revision \in sourceSet
        rb == IF emit
              THEN rebaseChangeOverChanges(g[c].change,
                       st.inverses \o st.targetRebasePath, st.log, failAt)
              ELSE [change |-> g[c].change, log |-> st.log, threw |-> FALSE]
        g1 == IF emit THEN RebasedCommit(g, c, rb.change, st.newHead) ELSE g
        st1 == IF emit
               THEN [st EXCEPT !.graph = g1,
                               !.newHead = Len(g1),
                               !.newSourceCommits = Append(@, Len(g1)),
                               !.targetRebasePath =
                                   Append(@, Tagged([g[c] EXCEPT !.change = rb.change])),
                               !.log = rb.log]
               ELSE st
        lg2 == Append(st1.log, InvertCall(g[c], TRUE))
    IN  IF ~emit
        THEN st
        ELSE IF rb.threw
        THEN [st EXCEPT !.log = rb.log, !.threw = TRUE]
        ELSE IF Len(lg2) = failAt
        THEN [st1 EXCEPT !.log = lg2, !.threw = TRUE]
        ELSE [st1 EXCEPT
                !.log = lg2,
                !.inverses = <<tagRollbackInverse(Invert(g[c], TRUE),
                                  mintRevisionTag(st.nextTag), g[c].revision)>> \o @,
                !.nextTag = @ + 1]

\* lines 204-222, mutated: line 219 pushes instead of unshifting, the
\* inverses are kept oldest first
MainPassStepPushingInverses(st, c, sourceSet, failAt) ==
    LET g == st.graph
        emit == g[c].revision \in sourceSet
        rb == IF emit
              THEN rebaseChangeOverChanges(g[c].change,
                       st.inverses \o st.targetRebasePath, st.log, failAt)
              ELSE [change |-> g[c].change, log |-> st.log, threw |-> FALSE]
        g1 == IF emit THEN RebasedCommit(g, c, rb.change, st.newHead) ELSE g
        st1 == IF emit
               THEN [st EXCEPT !.graph = g1,
                               !.newHead = Len(g1),
                               !.newSourceCommits = Append(@, Len(g1)),
                               !.targetRebasePath =
                                   Append(@, Tagged([g[c] EXCEPT !.change = rb.change])),
                               !.log = rb.log]
               ELSE st
        lg2 == Append(st1.log, InvertCall(g[c], TRUE))
    IN  IF rb.threw
        THEN [st EXCEPT !.log = rb.log, !.threw = TRUE]
        ELSE IF Len(lg2) = failAt
        THEN [st1 EXCEPT !.log = lg2, !.threw = TRUE]
        ELSE [st1 EXCEPT
                !.log = lg2,
                !.inverses = Append(@, tagRollbackInverse(Invert(g[c], TRUE),
                                  mintRevisionTag(st.nextTag), g[c].revision)),
                !.nextTag = @ + 1]

\* lines 204-222: one round of the main loop for source commit c
MainPassStep(st, c, sourceSet, failAt) ==
    LET g == st.graph
        emit == g[c].revision \in sourceSet
        rb == IF emit
              THEN rebaseChangeOverChanges(g[c].change,
                       st.inverses \o st.targetRebasePath, st.log, failAt)
              ELSE [change |-> g[c].change, log |-> st.log, threw |-> FALSE]
        g1 == IF emit THEN RebasedCommit(g, c, rb.change, st.newHead) ELSE g
        st1 == IF emit
               THEN [st EXCEPT !.graph = g1,
                               !.newHead = Len(g1),
                               !.newSourceCommits = Append(@, Len(g1)),
                               !.targetRebasePath =
                                   Append(@, Tagged([g[c] EXCEPT !.change = rb.change])),
                               !.log = rb.log]
               ELSE st
        lg2 == Append(st1.log, InvertCall(g[c], TRUE))
    IN  IF rb.threw
        THEN [st EXCEPT !.log = rb.log, !.threw = TRUE]
        ELSE IF Len(lg2) = failAt
        THEN [st1 EXCEPT !.log = lg2, !.threw = TRUE]
        ELSE [st1 EXCEPT
                !.log = lg2,
                !.inverses = <<inverseFromCommit(g[c], st.nextTag)>> \o @,
                !.nextTag = @ + 1]

RECURSIVE MainPass(_, _, _, _)
MainPass(st, sourcePath, sourceSet, failAt) ==
    IF sourcePath = <<>> \/ st.threw
    THEN st
    ELSE MainPass(MainPassStep(st, Head(sourcePath), sourceSet, failAt),
                  Tail(sourcePath), sourceSet, failAt)

\* what a call that does not return leaves behind
NoResult(status, g, next, lg) ==
    [status |-> status, newHead |-> 0, sourceChange |-> Undefined, newBase |-> 0,
     deletedSourceCommits |-> <<>>, newSourceCommits |-> <<>>,
     graph |-> g, nextTag |-> next, log |-> lg]

\* lines 126 and 251-254, mutated: unrelated branches are let through
AnyBranches(ancestor) == TRUE

\* lines 126 and 251-254: assert(ancestor !== undefined)
BranchesRelated(ancestor) == ancestor # 0

\* lines 138-142, mutated: the ancestor is returned as the head
NothingRebasedOntoAncestor(g, next, sourceHead, ancestor) ==
    [status |-> "returned", newHead |-> ancestor, sourceChange |-> Undefined,
     newBase |-> ancestor, deletedSourceCommits |-> <<>>,
     newSourceCommits |-> <<>>, graph |-> g, nextTag |-> next, log |-> <<>>]

\* lines 138-142: the early return when targetCommit is not in the target path
NothingToRebase(g, next, sourceHead, ancestor) ==
    [status |-> "returned", newHead |-> sourceHead, sourceChange |-> Undefined,
     newBase |-> ancestor, deletedSourceCommits |-> <<>>,
     newSourceCommits |-> <<>>, graph |-> g, nextTag |-> next, log |-> <<>>]

\* line 226, mutated: the inverses are left out of the composition
WithoutInverses(inverses, targetRebasePath) == targetRebasePath

\* line 226: [...inverses, ...targetRebasePath]
ComposedChanges(inverses, targetRebasePath) == inverses \o targetRebasePath

\* line 165, mutated: the whole target path is rebased over
WholeTargetPath(targetPath, newBaseIndex) == targetPath

\* line 165: targetPath.slice(0, newBaseIndex + 1)
TargetRebasePath(targetPath, newBaseIndex) == Take(targetPath, newBaseIndex)

\* line 166, mutated: the list aliases sourcePath and loses the commits that
\* lines 171-177 shift off
SourcePathAliased(sourcePath0, strippedSourcePath) == strippedSourcePath

\* line 166: const deletedSourceCommits = [...sourcePath], a copy taken
\* before lines 171-177 shift the common prefix off sourcePath
SourcePathCopy(sourcePath0, strippedSourcePath) == sourcePath0

\* line 135: the assertion accepts every targetCommit related to targetHead
TargetCommitRelated(g, targetCommit, targetHead) ==
    findCommonAncestor(g, Bare(targetCommit), Bare(targetHead)).ancestor # 0

rebaseBranch(g, next, sourceHead, targetCommit, targetHead, failAt) ==
    LET fca == findCommonAncestor(g, WithPath(sourceHead), WithPath(targetHead))
        ancestor == fca.ancestor
        sourcePath0 == fca.pathA
        targetPath == fca.pathB
        targetCommitIndex == IndexOf(targetPath, targetCommit)
        scan == ScanTargetPath(g, targetPath, 1, targetCommitIndex,
                               {g[sourcePath0[i]].revision : i \in 1..Len(sourcePath0)},
                               targetCommitIndex)
        newBase == targetPath[scan.newBaseIndex]
        targetRebasePath0 == TargetRebasePath(targetPath, scan.newBaseIndex)
        stripped == StripCommonPrefix(g, sourcePath0, targetRebasePath0,
                        Min(Len(sourcePath0), Len(targetRebasePath0)))
        reparented == Reparent(g, stripped.sourcePath, targetRebasePath0)
        st0 == [graph |-> g, newHead |-> newBase, inverses |-> <<>>,
                targetRebasePath |->
                    [i \in 1..Len(stripped.targetRebasePath) |->
                        Tagged(g[stripped.targetRebasePath[i]])],
                newSourceCommits |-> targetRebasePath0,
                log |-> <<>>, nextTag |-> next, threw |-> FALSE]
        st == MainPass(st0, stripped.sourcePath, scan.sourceSet, failAt)
        composed == ComposedChanges(st.inverses, st.targetRebasePath)
        lgc == Append(st.log, ComposeCall(composed))
    IN  IF ~BranchesRelated(ancestor)
        THEN NoResult("assert", g, next, <<>>)
        ELSE IF targetCommitIndex = 0
        THEN IF ~TargetCommitRelated(g, targetCommit, targetHead)
             THEN NoResult("assert", g, next, <<>>)
             ELSE NothingToRebase(g, next, sourceHead, ancestor)
        ELSE IF stripped.targetRebasePath = <<>>
        THEN [status |-> "returned",
              newHead |-> reparented.newSourceCommits[Len(reparented.newSourceCommits)],
              sourceChange |-> Undefined, newBase |-> newBase,
              deletedSourceCommits |->
                  SourcePathCopy(sourcePath0, stripped.sourcePath),
              newSourceCommits |-> reparented.newSourceCommits,
              graph |-> reparented.graph, nextTag |-> next, log |-> <<>>]
        ELSE IF st.threw
        THEN NoResult("threw", st.graph, st.nextTag, st.log)
        ELSE IF Len(lgc) = failAt
        THEN NoResult("threw", st.graph, st.nextTag, lgc)
        ELSE [status |-> "returned", newHead |-> st.newHead,
              sourceChange |-> Compose(composed), newBase |-> newBase,
              deletedSourceCommits |->
                  SourcePathCopy(sourcePath0, stripped.sourcePath),
              newSourceCommits |-> st.newSourceCommits,
              graph |-> st.graph, nextTag |-> st.nextTag, log |-> lgc]

(***************************************************************************)
(* rebaseChange.                                                           *)
(***************************************************************************)
\* lines 256-260, mutated: reduce instead of reduceRight, the commit closest
\* to the ancestor is inverted first
RECURSIVE RebaseOverInversesOldestFirst(_, _, _, _)
RebaseOverInversesOldestFirst(g, st, sourcePath, failAt) ==
    IF sourcePath = <<>> \/ st.threw
    THEN st
    ELSE LET c == g[Head(sourcePath)]
             lg1 == Append(st.log, InvertCall(c, TRUE))
             inverse == tagRollbackInverse(Invert(c, TRUE),
                            mintRevisionTag(st.nextTag), c.revision)
             lg2 == Append(lg1, RebaseCall(st.change, inverse))
         IN  IF Len(lg1) = failAt
             THEN [st EXCEPT !.log = lg1, !.threw = TRUE]
             ELSE IF Len(lg2) = failAt
             THEN [st EXCEPT !.log = lg2, !.nextTag = @ + 1, !.threw = TRUE]
             ELSE RebaseOverInversesOldestFirst(g,
                      [st EXCEPT !.change = Rebase(st.change, inverse),
                                 !.log = lg2, !.nextTag = @ + 1],
                      Tail(sourcePath), failAt)

\* lines 256-260: reduceRight over the source path, each step inverting the
\* commit (inverseFromCommit) and rebasing the running change over the inverse
RECURSIVE RebaseOverInverses(_, _, _, _)
RebaseOverInverses(g, st, sourcePath, failAt) ==
    IF sourcePath = <<>> \/ st.threw
    THEN st
    ELSE LET c == g[sourcePath[Len(sourcePath)]]
             lg1 == Append(st.log, InvertCall(c, TRUE))
             inverse == inverseFromCommit(c, st.nextTag)
             lg2 == Append(lg1, RebaseCall(st.change, inverse))
         IN  IF Len(lg1) = failAt
             THEN [st EXCEPT !.log = lg1, !.threw = TRUE]
             ELSE IF Len(lg2) = failAt
             THEN [st EXCEPT !.log = lg2, !.nextTag = @ + 1, !.threw = TRUE]
             ELSE RebaseOverInverses(g,
                      [st EXCEPT !.change = Rebase(st.change, inverse),
                                 !.log = lg2, !.nextTag = @ + 1],
                      Take(sourcePath, Len(sourcePath) - 1), failAt)

rebaseChange(g, next, change, sourceHead, targetHead, failAt) ==
    LET fca == findCommonAncestor(g, WithPath(sourceHead), WithPath(targetHead))
        toRef == RebaseOverInverses(g,
                     [change |-> change, log |-> <<>>, nextTag |-> next,
                      threw |-> FALSE],
                     fca.pathA, failAt)
        fwd == rebaseChangeOverChanges(toRef.change,
                   [i \in 1..Len(fca.pathB) |-> Tagged(g[fca.pathB[i]])],
                   toRef.log, failAt)
    IN  IF ~BranchesRelated(fca.ancestor)
        THEN [status |-> "assert", change |-> Undefined, nextTag |-> next,
              log |-> <<>>]
        ELSE IF toRef.threw
        THEN [status |-> "threw", change |-> Undefined, nextTag |-> toRef.nextTag,
              log |-> toRef.log]
        ELSE IF fwd.threw
        THEN [status |-> "threw", change |-> Undefined, nextTag |-> toRef.nextTag,
              log |-> fwd.log]
        ELSE [status |-> "returned", change |-> fwd.change,
              nextTag |-> toRef.nextTag, log |-> fwd.log]

(***************************************************************************)
(* The commit graphs the calls are made on: a root, a target chain of      *)
(* targetLen commits and a source chain of sourceLen commits below it,     *)
(* and possibly a second, unrelated root.  match[j] = 0 gives source       *)
(* commit j a revision of its own; match[j] = k gives it the revision of   *)
(* the k-th target commit, with the same payload unless differ.            *)
(***************************************************************************)
FamilyGraph(targetLen, sourceLen, match, differ, other) ==
    [i \in 1..(1 + targetLen + sourceLen + (IF other THEN 1 ELSE 0)) |->
        IF i = 1
        THEN [revision |-> 1, sessionId |-> 1, change |-> BaseChange(0), parent |-> 0]
        ELSE IF i <= 1 + targetLen
        THEN [revision |-> i, sessionId |-> 1, change |-> BaseChange(i - 1),
              parent |-> i - 1]
        ELSE IF i <= 1 + targetLen + sourceLen
        THEN LET j == i - 1 - targetLen
             IN  [revision |-> IF match[j] = 0 THEN i ELSE 1 + match[j],
                  sessionId |-> 2,
                  change |-> IF match[j] = 0 THEN BaseChange(i - 1)
                             ELSE IF differ THEN BaseChange(match[j] + 4)
                             ELSE BaseChange(match[j]),
                  parent |-> IF j = 1 THEN 1 ELSE i - 1]
        ELSE [revision |-> i, sessionId |-> 3, change |-> BaseChange(i - 1),
              parent |-> 0]]

\* every related pair of branches within the bounds, and for each pair of
\* lengths one graph with an unrelated root beside branches that share no
\* revision
FamilyGraphs ==
    UNION {UNION {{FamilyGraph(tl, sl, m, d, FALSE) :
                        m \in [1..sl -> 0..tl], d \in BOOLEAN}
                    \cup {FamilyGraph(tl, sl, [j \in 1..sl |-> 0], FALSE, TRUE)} :
                  sl \in 0..MaxSource} :
           tl \in 0..MaxTarget}

\* the example of rebaseBranch's doc comment (lines 85-87): target
\* A-B-C-D-E, source A-B'-D'-F
DocExampleGraphs ==
    {FamilyGraph(4, 3, <<1, 3, 0>>, d, FALSE) : d \in BOOLEAN}

\* a target of one commit and a source of three commits of their own
\* revisions: the third is rebased over two rollback inverses
ThreeSourceGraphs == {FamilyGraph(1, 3, <<0, 0, 0>>, FALSE, FALSE)}

\* the revisions carried by the commits of g
Revisions(g) == {g[i].revision : i \in 1..Len(g)}

FirstFreeTag(g) == 1 + CHOOSE r \in Revisions(g) : \A q \in Revisions(g) : q <= r

(***************************************************************************)
(* The state machine: one call on a graph.                                 *)
(***************************************************************************)
NoCall == [op |-> "none"]

Init ==
    /\ graph \in FamilyGraphs \cup DocExampleGraphs \cup ThreeSourceGraphs
    /\ nextTag = FirstFreeTag(graph)
    /\ call = NoCall
    /\ result = [status |-> "none"]
    /\ log = <<>>
    /\ pc = "idle"
    /\ ComponentsIdle

RebaseBranch ==
    /\ pc = "idle"
    /\ \E sourceHead \in 1..Len(graph), targetCommit \in 1..Len(graph),
          targetHead \in 1..Len(graph), failAt \in 0..MaxFail :
        \E r \in {rebaseBranch(graph, nextTag, sourceHead, targetCommit,
                               targetHead, failAt)} :
            /\ call' = [op |-> "rebaseBranch", sourceHead |-> sourceHead,
                        targetCommit |-> targetCommit, targetHead |-> targetHead,
                        failAt |-> failAt]
            /\ result' = [status |-> r.status, newHead |-> r.newHead,
                          sourceChange |-> r.sourceChange, newBase |-> r.newBase,
                          deletedSourceCommits |-> r.deletedSourceCommits,
                          newSourceCommits |-> r.newSourceCommits]
            /\ graph' = r.graph
            /\ nextTag' = r.nextTag
            /\ log' = r.log
    /\ pc' = "done"
    /\ UNCHANGED componentVars

RebaseChange ==
    /\ pc = "idle"
    /\ \E sourceHead \in 1..Len(graph), targetHead \in 1..Len(graph),
          failAt \in 0..MaxFail :
        \E r \in {rebaseChange(graph, nextTag, BaseChange(0), sourceHead,
                               targetHead, failAt)} :
            /\ call' = [op |-> "rebaseChange", change |-> BaseChange(0),
                        sourceHead |-> sourceHead, targetHead |-> targetHead,
                        failAt |-> failAt]
            /\ result' = [status |-> r.status, change |-> r.change]
            /\ nextTag' = r.nextTag
            /\ log' = r.log
    /\ pc' = "done"
    /\ UNCHANGED graph
    /\ UNCHANGED componentVars

\* the out-path arrays a caller may hand over: an empty one or one that
\* already holds a commit
GivenPaths(hasPath) == IF hasPath THEN {<<>>, <<1>>} ELSE {<<>>}

FindCommonAncestor ==
    /\ pc = "idle"
    /\ \E a \in 0..Len(graph), b \in 0..Len(graph), hasPathA \in BOOLEAN,
          hasPathB \in BOOLEAN :
      \E pathA \in GivenPaths(hasPathA), pathB \in GivenPaths(hasPathB) :
        LET descendantA == [commit |-> a, hasPath |-> hasPathA, path |-> pathA]
            descendantB == [commit |-> b, hasPath |-> hasPathB, path |-> pathB]
            r == findCommonAncestor(graph, descendantA, descendantB)
        IN  /\ call' = [op |-> "findCommonAncestor", descendantA |-> descendantA,
                        descendantB |-> descendantB]
            /\ result' = r
    /\ pc' = "done"
    /\ UNCHANGED <<graph, nextTag, log>>
    /\ UNCHANGED componentVars

FindAncestor ==
    /\ pc = "idle"
    /\ \E d \in 0..Len(graph), hasPath \in BOOLEAN,
          predicateTag \in {0} \cup Revisions(graph) :
        LET descendant == [commit |-> d, hasPath |-> hasPath, path |-> <<>>]
        IN  /\ call' = [op |-> "findAncestor", descendant |-> descendant,
                        predicateTag |-> predicateTag]
            /\ result' = findAncestor(graph, descendant, predicateTag)
    /\ pc' = "done"
    /\ UNCHANGED <<graph, nextTag, log>>
    /\ UNCHANGED componentVars

Next == RebaseBranch \/ RebaseChange \/ FindCommonAncestor \/ FindAncestor

Spec == Init /\ [][Next]_vars

(***************************************************************************)
(* The loop of findCommonAncestor taken one iteration at a time: while the *)
(* walk is under way pc is "walking" and result holds the locals of the    *)
(* function (a, b, visited, the two paths and the count of parent links    *)
(* followed).                                                              *)
(***************************************************************************)
\* lines 377-404, mutated: the block that handles b is left out
CommonAncestorIterationWithoutB(g, w) ==
    IF w.a = 0 /\ w.b = 0
    THEN [status |-> "returned", ancestor |-> 0, pathA |-> Cleared(w.pathA),
          pathB |-> Cleared(w.pathB), walked |-> w.walked]
    ELSE IF w.a # 0 /\ w.a \in w.visited
    THEN [status |-> "returned", ancestor |-> w.a, pathA |-> w.pathA,
          pathB |-> SpliceThrough(w.pathB, w.a), walked |-> w.walked]
    ELSE IF w.a # 0
    THEN [w EXCEPT !.visited = @ \cup {w.a}, !.pathA = <<w.a>> \o @,
                   !.a = g[w.a].parent, !.walked = @ + 1]
    ELSE w

\* lines 377-404: one iteration of the while loop, or its exit (406-412)
CommonAncestorIteration(g, w) ==
    IF w.a = 0 /\ w.b = 0
    THEN [status |-> "returned", ancestor |-> 0, pathA |-> Cleared(w.pathA),
          pathB |-> Cleared(w.pathB), walked |-> w.walked]
    ELSE IF w.a # 0 /\ w.a \in w.visited
    THEN [status |-> "returned", ancestor |-> w.a, pathA |-> w.pathA,
          pathB |-> SpliceThrough(w.pathB, w.a), walked |-> w.walked]
    ELSE LET w1 == IF w.a # 0
                   THEN [w EXCEPT !.visited = @ \cup {w.a},
                                  !.pathA = <<w.a>> \o @,
                                  !.a = g[w.a].parent, !.walked = @ + 1]
                   ELSE w
         IN  IF w1.b # 0 /\ w1.b \in w1.visited
             THEN [status |-> "returned", ancestor |-> w1.b,
                   pathA |-> SpliceThrough(w1.pathA, w1.b), pathB |-> w1.pathB,
                   walked |-> w1.walked]
             ELSE IF w1.b # 0
             THEN [w1 EXCEPT !.visited = @ \cup {w1.b}, !.pathB = <<w1.b>> \o @,
                             !.b = g[w1.b].parent, !.walked = @ + 1]
             ELSE w1

\* lines 356-376: the arguments are taken apart; identical commits return
\* at once, otherwise the loop is entered with an empty visited set
FindCommonAncestorBegin ==
    /\ pc = "idle"
    /\ \E a \in 0..Len(graph), b \in 0..Len(graph) :
        /\ call' = [op |-> "findCommonAncestor", descendantA |-> WithPath(a),
                    descendantB |-> WithPath(b)]
        /\ IF a = b
           THEN /\ result' = [status |-> "returned", ancestor |-> a,
                              pathA |-> <<>>, pathB |-> <<>>, walked |-> 0]
                /\ pc' = "done"
           ELSE /\ result' = [status |-> "walking", a |-> a, b |-> b,
                              visited |-> {}, pathA |-> <<>>, pathB |-> <<>>,
                              walked |-> 0]
                /\ pc' = "walking"
    /\ UNCHANGED <<graph, nextTag, log>>
    /\ UNCHANGED componentVars

FindCommonAncestorStep ==
    /\ pc = "walking"
    /\ result' = CommonAncestorIteration(graph, result)
    /\ pc' = IF result'.status = "walking" THEN "walking" ELSE "done"
    /\ UNCHANGED <<graph, nextTag, call, log>>
    /\ UNCHANGED componentVars

StepwiseNext == Next \/ FindCommonAncestorBegin \/ FindCommonAncestorStep

\* a walk that has started goes on: nothing inside the loop waits
StepwiseSpec ==
    Init /\ [][StepwiseNext]_vars /\ WF_vars(FindCommonAncestorStep)

(***************************************************************************)
(* Graph notions the properties are stated with; they are defined from the *)
(* parent links alone.                                                     *)
(***************************************************************************)
\* the commits from x up to its root, x first
RECURSIVE ChainUp(_, _)
ChainUp(g, x) == IF x = 0 THEN <<>> ELSE <<x>> \o ChainUp(g, g[x].parent)

\* x and all its ancestors
AncestorsOrSelf(g, x) == Range(ChainUp(g, x))

Depth(g, x) == Len(ChainUp(g, x))

CommonAncestors(g, a, b) == AncestorsOrSelf(g, a) \cap AncestorsOrSelf(g, b)

\* the deepest commit reachable from both a and b (0 when there is none)
DeepestCommonAncestor(g, a, b) ==
    LET common == CommonAncestors(g, a, b)
    IN  IF common = {} THEN 0
        ELSE CHOOSE c \in common : \A d \in common : Depth(g, d) <= Depth(g, c)

\* the parent chain from ancestor (exclusive) down to x (inclusive), in
\* ancestor-to-descendant order
RECURSIVE PathBetween(_, _, _)
PathBetween(g, ancestor, x) ==
    IF x = 0 \/ x = ancestor THEN <<>>
    ELSE Append(PathBetween(g, ancestor, g[x].parent), x)

\* the revisions of a sequence of commits
RevisionsOf(g, path) == [i \in 1..Len(path) |-> g[path[i]].revision]

IsRebaseBranch == call.op = "rebaseBranch"

\* the common ancestor and the two paths of a rebaseBranch or rebaseChange call
CallAncestor == DeepestCommonAncestor(graph, call.sourceHead, call.targetHead)

CallSourcePath == PathBetween(graph, CallAncestor, call.sourceHead)

CallTargetPath == PathBetween(graph, CallAncestor, call.targetHead)

(***************************************************************************)
(* C1: for two commits with a common ancestor, findCommonAncestor returns  *)
(* the deepest commit reachable from both, and each out-path is the parent *)
(* chain from that ancestor (exclusive) to the descendant (inclusive) in   *)
(* ancestor-to-descendant order.                                           *)
(***************************************************************************)
C1_DeepestAncestorAndPaths ==
    (/\ call.op = "findCommonAncestor"
     /\ call.descendantA.path = <<>> /\ call.descendantB.path = <<>>
     /\ CommonAncestors(graph, call.descendantA.commit, call.descendantB.commit) # {})
    => /\ result.status = "returned"
       /\ result.ancestor = DeepestCommonAncestor(graph, call.descendantA.commit,
                                                  call.descendantB.commit)
       /\ call.descendantA.hasPath =>
            /\ result.pathA = PathBetween(graph, result.ancestor,
                                          call.descendantA.commit)
            /\ <<result.ancestor>> \o result.pathA =
                 PathBetween(graph, graph[result.ancestor].parent,
                             call.descendantA.commit)
       /\ call.descendantB.hasPath =>
            /\ result.pathB = PathBetween(graph, result.ancestor,
                                          call.descendantB.commit)
            /\ <<result.ancestor>> \o result.pathB =
                 PathBetween(graph, graph[result.ancestor].parent,
                             call.descendantB.commit)

\* two diverged commits: both paths are populated and of different lengths
C1_Witness ==
    /\ call.op = "findCommonAncestor"
    /\ call.descendantA.hasPath /\ call.descendantB.hasPath
    /\ result.ancestor # 0
    /\ Len(result.pathA) >= 2
    /\ Len(result.pathB) >= 1
    /\ Len(result.pathB) # Len(result.pathA)

\* no two elements of seq are equal
Distinct(seq) == \A i, j \in 1..Len(seq) : seq[i] = seq[j] => i = j

\* the calls of the algebra's rebase, invert and compose recorded in the log
CallsOf(op) == {k \in 1..Len(log) : log[k].op = op}

\* the cancel-out scenario: target A-B-C and source A-B'-D below the
\* ancestor A, rebased onto C = targetCommit = targetHead
CancelOutScenario ==
    /\ IsRebaseBranch
    /\ call.targetCommit = call.targetHead
    /\ Len(CallTargetPath) = 2
    /\ Len(CallSourcePath) = 2
    /\ graph[CallSourcePath[1]].revision = graph[CallTargetPath[1]].revision
    /\ graph[CallSourcePath[2]].revision \notin Range(RevisionsOf(graph, CallTargetPath))
    /\ Distinct(RevisionsOf(graph, CallTargetPath))
    /\ Distinct(RevisionsOf(graph, CallSourcePath))

(***************************************************************************)
(* C2: cancel-out.  Target A-B-C, source A-B'-D with B and B' carrying the *)
(* same revision: rebaseBranch(D, C, C) returns newBase = C,               *)
(* deletedSourceCommits = [B', D], newSourceCommits = [B, C, D'], where D' *)
(* has D's revision, parent C and D's change rebased over C only; rebase   *)
(* is never called over B or B' and no revision appears twice.             *)
(***************************************************************************)
C2_CancelOut ==
    CancelOutScenario =>
        LET B == CallTargetPath[1]
            C == CallTargetPath[2]
            Bp == CallSourcePath[1]
            D == CallSourcePath[2]
        IN  /\ result.status \in {"returned", "threw"}
            /\ \A k \in CallsOf("rebase") :
                    /\ log[k].over.revision # graph[B].revision
                    /\ log[k].over.rollbackOf # graph[B].revision
            /\ result.status = "returned" =>
                /\ result.newBase = C
                /\ result.deletedSourceCommits = <<Bp, D>>
                /\ result.newSourceCommits = <<B, C, result.newHead>>
                /\ result.newHead \notin {CallAncestor, B, C, Bp, D}
                /\ graph[result.newHead] =
                      [revision |-> graph[D].revision,
                       sessionId |-> graph[D].sessionId,
                       change |-> Rebase(graph[D].change, Tagged(graph[C])),
                       parent |-> C]
                /\ Distinct(RevisionsOf(graph, result.newSourceCommits))

\* the scenario with different payloads on B and B', and the call returned
C2_Witness ==
    /\ CancelOutScenario
    /\ result.status = "returned"
    /\ graph[CallSourcePath[1]].change # graph[CallTargetPath[1]].change

\* a and b have no common ancestor
Unrelated(g, a, b) == CommonAncestors(g, a, b) = {}

(***************************************************************************)
(* C3: when sourceHead and targetHead have no common ancestor, rebaseBranch*)
(* and rebaseChange fail their assertion before any algebra call and       *)
(* before any commit or revision tag is minted.                            *)
(***************************************************************************)
C3_UnrelatedRejected ==
    [][(/\ call'.op \in {"rebaseBranch", "rebaseChange"}
        /\ Unrelated(graph, call'.sourceHead, call'.targetHead))
       => /\ result'.status = "assert"
          /\ log' = <<>>
          /\ graph' = graph
          /\ nextTag' = nextTag]_vars

\* rebaseBranch was called on a head of the second root
C3_Witness ==
    /\ IsRebaseBranch
    /\ Unrelated(graph, call.sourceHead, call.targetHead)
    /\ result.status = "assert"

(***************************************************************************)
(* C4: rebaseBranch fails its assertion whenever targetCommit does not lie *)
(* on the target branch (targetHead and its ancestors), also when it sits  *)
(* on a sibling branch that shares only an older ancestor with targetHead. *)
(***************************************************************************)
C4_OffBranchTargetRejected ==
    (/\ IsRebaseBranch
     /\ ~Unrelated(graph, call.sourceHead, call.targetHead)
     /\ call.targetCommit \notin AncestorsOrSelf(graph, call.targetHead))
    => result.status = "assert"

(***************************************************************************)
(* C5: no-op rebase.  When targetCommit is the common ancestor of source   *)
(* and target or lies behind it, rebaseBranch returns sourceHead itself,   *)
(* an undefined change, newBase = the common ancestor and empty commit     *)
(* lists, calls no algebra operation and mints nothing.                    *)
(***************************************************************************)
C5_NoOpRebase ==
    [][call'.op = "rebaseBranch" =>
        \A ancestor \in {DeepestCommonAncestor(graph, call'.sourceHead,
                                                call'.targetHead)} :
           (/\ ancestor # 0
            /\ call'.targetCommit \in AncestorsOrSelf(graph, ancestor))
           => /\ result' = [status |-> "returned",
                            newHead |-> call'.sourceHead,
                            sourceChange |-> Undefined,
                            newBase |-> ancestor,
                            deletedSourceCommits |-> <<>>,
                            newSourceCommits |-> <<>>]
              /\ log' = <<>>
              /\ graph' = graph
              /\ nextTag' = nextTag]_vars

\* targetCommit strictly behind the ancestor of a non-empty source branch
C5_Witness ==
    /\ IsRebaseBranch
    /\ CallAncestor # 0
    /\ call.targetCommit \in AncestorsOrSelf(graph, CallAncestor)
    /\ call.targetCommit # CallAncestor
    /\ CallSourcePath # <<>>
    /\ result.status = "returned"

\* the example of the doc comment: target A-B-C-D-E, source A-B'-D'-F,
\* rebased onto C with targetHead E
PastTargetScenario ==
    /\ IsRebaseBranch
    /\ Len(CallTargetPath) = 4
    /\ Len(CallSourcePath) = 3
    /\ call.targetCommit = CallTargetPath[2]
    /\ graph[CallSourcePath[1]].revision = graph[CallTargetPath[1]].revision
    /\ graph[CallSourcePath[2]].revision = graph[CallTargetPath[3]].revision
    /\ graph[CallSourcePath[3]].revision \notin Range(RevisionsOf(graph, CallTargetPath))
    /\ Distinct(RevisionsOf(graph, CallTargetPath))
    /\ Distinct(RevisionsOf(graph, CallSourcePath))

(***************************************************************************)
(* C6: rebasing past the target.  Target A-B-C-D-E, source A-B'-D'-F with  *)
(* B/B' and D/D' sharing revisions: rebaseBranch(F, C, E) returns          *)
(* newBase = D and a new source branch of the single rebased commit F' on  *)
(* D.                                                                      *)
(***************************************************************************)
C6_RebasePastTarget ==
    (PastTargetScenario /\ result.status = "returned")
    => /\ result.newBase = CallTargetPath[3]
       /\ result.newSourceCommits =
              <<CallTargetPath[1], CallTargetPath[2], CallTargetPath[3],
                result.newHead>>
       /\ graph[result.newHead].parent = CallTargetPath[3]
       /\ graph[result.newHead].revision = graph[CallSourcePath[3]].revision

(***************************************************************************)
(* C7: for every rebaseBranch call that satisfies the preconditions and    *)
(* returns, newBase is targetCommit or a descendant of it, and is          *)
(* targetHead or an ancestor of it.                                        *)
(***************************************************************************)
C7_NewBaseNotBehindTarget ==
    (/\ IsRebaseBranch
     /\ result.status = "returned"
     /\ call.targetCommit \in AncestorsOrSelf(graph, call.targetHead))
    => /\ call.targetCommit \in AncestorsOrSelf(graph, result.newBase)
       /\ result.newBase \in AncestorsOrSelf(graph, call.targetHead)

\* the new base was advanced past targetCommit
C7_Witness ==
    /\ IsRebaseBranch
    /\ result.status = "returned"
    /\ IndexOf(CallTargetPath, call.targetCommit) # 0
    /\ result.newBase # call.targetCommit

(***************************************************************************)
(* The integer counter algebra: rebase(c, over) = c, invert(c) = -c,       *)
(* compose(cs) = sum of cs, as the interpretation of the terms.            *)
(***************************************************************************)
RECURSIVE Eval(_)
RECURSIVE EvalSum(_)
Eval(t) ==
    IF t[1] = "undefined" THEN 0
    ELSE IF t[1] = "base" THEN t[2]
    ELSE IF t[1] = "rebase" THEN Eval(t[2])
    ELSE IF t[1] = "invert" THEN 0 - Eval(t[3])
    ELSE EvalSum(t[2])

\* the sum of a sequence of tagged changes
EvalSum(changes) ==
    IF changes = <<>> THEN 0
    ELSE Eval(Head(changes).change) + EvalSum(Tail(changes))

\* the net effect of applying the commits of path one by one
NetEffect(g, path) == EvalSum([i \in 1..Len(path) |-> Tagged(g[path[i]])])

\* the counter state of a branch: the net effect of its whole chain
BranchState(g, head) == NetEffect(g, ChainUp(g, head))

\* commits that share a revision tag carry the same payload
SamePayloadPerTag ==
    \A i, j \in 1..Len(graph) :
        graph[i].revision = graph[j].revision
            => Eval(graph[i].change) = Eval(graph[j].change)

\* p is a strict prefix of q
StrictPrefix(p, q) == Len(p) < Len(q) /\ \A i \in 1..Len(p) : p[i] = q[i]

\* a returned rebaseBranch call whose source path is a strict prefix, by
\* revision, of the target rebase path
SourceIsStrictPrefix ==
    /\ IsRebaseBranch
    /\ result.status = "returned"
    /\ IndexOf(CallTargetPath, call.targetCommit) # 0
    /\ StrictPrefix(RevisionsOf(graph, CallSourcePath),
                    RevisionsOf(graph, PathBetween(graph, CallAncestor,
                                                   result.newBase)))

(***************************************************************************)
(* C8: fast-forward.  Whenever the source path is a strict prefix, by      *)
(* revision and in order, of the target rebase path (ancestor..newBase),   *)
(* rebase, invert and compose are never invoked.                           *)
(***************************************************************************)
C8_FastForwardNoAlgebra == SourceIsStrictPrefix => log = <<>>

\* C8, amended: whenever the source path is a strict prefix, by revision
\* and in order, of the target rebase path, rebase and invert are never
\* invoked and no commit is minted (the new head is newBase itself);
\* compose is invoked exactly once, on the target commits that follow the
\* common prefix, and its result is the returned change.
C8_FastForwardComposeOnly ==
    SourceIsStrictPrefix =>
        LET targetRebasePath == PathBetween(graph, CallAncestor, result.newBase)
            rest == Drop(targetRebasePath, Len(CallSourcePath))
            restChanges == [i \in 1..Len(rest) |-> Tagged(graph[rest[i]])]
        IN  /\ CallsOf("rebase") = {}
            /\ CallsOf("invert") = {}
            /\ log = <<ComposeCall(restChanges)>>
            /\ result.sourceChange = Compose(restChanges)
            /\ result.newHead = result.newBase
            /\ result.newSourceCommits = targetRebasePath
            /\ result.deletedSourceCommits = CallSourcePath

\* a non-empty source branch whose commits all open the target rebase path
C8_Witness ==
    /\ SourceIsStrictPrefix
    /\ CallSourcePath # <<>>

\* the pre-rebase source state followed by the returned change is the state
\* of the new source head
RoundTrip ==
    /\ BranchState(graph, call.sourceHead) + Eval(result.sourceChange)
           = BranchState(graph, result.newHead)
    /\ IndexOf(CallTargetPath, call.targetCommit) # 0
        => NetEffect(graph, CallSourcePath) + Eval(result.sourceChange)
               = NetEffect(graph, result.newSourceCommits)

(***************************************************************************)
(* C9: round trip under the counter algebra.  For every rebaseBranch call  *)
(* the returned change applied to the pre-rebase source state gives the    *)
(* state obtained by applying the new source commits one by one, also      *)
(* when tag-matched commits carry different payloads.                      *)
(***************************************************************************)
C9_RoundTrip == (IsRebaseBranch /\ result.status = "returned") => RoundTrip

\* C9, amended: provided commits that share a revision tag carry the same
\* payload, the returned change applied to the pre-rebase source state gives
\* the state of the new source head; when targetCommit is on the target
\* path this is the net effect of the new source commits applied one by one.
C9_RoundTripSamePayload ==
    (IsRebaseBranch /\ result.status = "returned" /\ SamePayloadPerTag)
    => RoundTrip

\* a rebase that cancelled a tag-matched commit and composed a change
C9_Witness ==
    /\ IsRebaseBranch
    /\ result.status = "returned"
    /\ SamePayloadPerTag
    /\ result.sourceChange # Undefined
    /\ Len(CallSourcePath) >= 2
    /\ \E i \in 1..Len(CallSourcePath) :
          graph[CallSourcePath[i]].revision
              \in Range(RevisionsOf(graph, CallTargetPath))
    /\ Eval(result.sourceChange) # 0

(***************************************************************************)
(* C10: no call modifies a field of a commit that existed before it,       *)
(* whether it returns or aborts; the only graph effect is the addition of  *)
(* commits whose parent is an existing commit or an earlier new one.       *)
(***************************************************************************)
C10_CommitsNeverMutated ==
    [][/\ Len(graph') >= Len(graph)
       /\ \A i \in 1..Len(graph) : graph'[i] = graph[i]
       /\ \A i \in (Len(graph) + 1)..Len(graph') :
              graph'[i].parent \in 1..(i - 1)]_vars

\* rebaseBranch aborted on an algebra exception after it had made a rebased
\* commit
C10_Witness ==
    /\ IsRebaseBranch
    /\ result.status = "threw"
    /\ \E i \in 1..Len(graph) : graph[i].change[1] = "rebase"

(***************************************************************************)
(* Notions for the results of rebaseBranch calls that take the rebasing    *)
(* path (targetCommit found on the target path) and return.                *)
(***************************************************************************)
OnRebasingPath ==
    /\ IsRebaseBranch
    /\ result.status = "returned"
    /\ IndexOf(CallTargetPath, call.targetCommit) # 0

\* the target commits from the common ancestor (exclusive) to the new base
ResultRebasePath == PathBetween(graph, CallAncestor, result.newBase)

\* the revisions met on the target up to the new base: a source commit that
\* carries one of them is cancelled out
CancelledTags == Range(RevisionsOf(graph, ResultRebasePath))

\* the source commits that are not cancelled out, in source order
Survivors ==
    SelectSeq(CallSourcePath, LAMBDA c : graph[c].revision \notin CancelledTags)

\* the commits of newSourceCommits that follow the reused target commits
EmittedCommits == Drop(result.newSourceCommits, Len(ResultRebasePath))

\* the revision and sessionId of each commit of path
IdentitiesOf(g, path) ==
    [i \in 1..Len(path) |-> <<g[path[i]].revision, g[path[i]].sessionId>>]

\* the surviving source commits are what was emitted after the reused
\* target commits: new commits, one each, same revision and sessionId, same
\* order
SurvivorsReemitted ==
    /\ Take(result.newSourceCommits, Len(ResultRebasePath)) = ResultRebasePath
    /\ IdentitiesOf(graph,
           SelectSeq(EmittedCommits,
                     LAMBDA c : graph[c].revision \notin CancelledTags))
         = IdentitiesOf(graph, Survivors)
    /\ Distinct(EmittedCommits)
    /\ Range(EmittedCommits)
         \cap (Range(CallSourcePath) \cup AncestorsOrSelf(graph, call.targetHead))
         = {}

(***************************************************************************)
(* C11: in every rebaseBranch call that returns, the source commits that   *)
(* are not cancelled out are each re-emitted exactly once as a new commit  *)
(* with the original revision and sessionId, and they appear in            *)
(* newSourceCommits in their original relative order.                      *)
(***************************************************************************)
C11_SurvivorsAlwaysReemitted ==
    (IsRebaseBranch /\ result.status = "returned") => SurvivorsReemitted

\* C11, amended: in every rebaseBranch call that finds targetCommit on the
\* target path and returns, the source commits that are not cancelled out
\* are each re-emitted exactly once as a new commit with the original
\* revision and sessionId, in their original relative order (a call whose
\* targetCommit is at or behind the common ancestor re-emits nothing).
C11_SurvivorsReemittedOnce == OnRebasingPath => SurvivorsReemitted

\* two surviving commits behind a cancelled one, rebased by the main pass
\* onto a new base of another session
C11_Witness ==
    /\ OnRebasingPath
    /\ Len(Survivors) >= 2
    /\ Len(Survivors) < Len(CallSourcePath)
    /\ CallsOf("rebase") # {}
    /\ graph[Survivors[1]].sessionId # graph[result.newBase].sessionId

\* change rebased over each element of overs in turn
RECURSIVE FoldRebase(_, _)
FoldRebase(change, overs) ==
    IF overs = <<>> THEN change
    ELSE FoldRebase(Rebase(change, Head(overs)), Tail(overs))

\* seq in reverse order
Reverse(seq) == [i \in 1..Len(seq) |-> seq[Len(seq) + 1 - i]]

\* the rollback inverses of the commits of path, the first one tagged
\* firstTag, the next firstTag + 1, ...
RollbackInverses(g, path, firstTag) ==
    [k \in 1..Len(path) |->
        tagRollbackInverse(Invert(g[path[k]], TRUE), firstTag + k - 1,
                           g[path[k]].revision)]

\* the entries of lg that are calls of op, in order
CallsIn(lg, op) == SelectSeq(lg, LAMBDA e : e.op = op)

(***************************************************************************)
(* C12: a rebaseChange call that returns gives the change rebased first    *)
(* over the rollback inverse of each source-path commit, from the commit   *)
(* closest to sourceHead back to the common ancestor, then over each       *)
(* target-path commit in ancestor-to-descendant order; invert is called    *)
(* once per source-path commit, compose never, no commit is minted, and    *)
(* with sourceHead = targetHead the change comes back without any algebra  *)
(* call.                                                                   *)
(***************************************************************************)
C12_RebaseChangeSandwich ==
    [][(call'.op = "rebaseChange" /\ result'.status = "returned") =>
        \A ancestor \in {DeepestCommonAncestor(graph, call'.sourceHead,
                                                call'.targetHead)} :
          LET sourcePath == PathBetween(graph, ancestor, call'.sourceHead)
              targetPath == PathBetween(graph, ancestor, call'.targetHead)
              inverses == RollbackInverses(graph, Reverse(sourcePath), nextTag)
              overs == inverses
                         \o [i \in 1..Len(targetPath) |-> Tagged(graph[targetPath[i]])]
          IN  /\ result'.change = FoldRebase(call'.change, overs)
              /\ CallsIn(log', "rebase")
                   = [k \in 1..Len(overs) |->
                        RebaseCall(FoldRebase(call'.change, Take(overs, k - 1)),
                                   overs[k])]
              /\ CallsIn(log', "invert")
                   = [k \in 1..Len(sourcePath) |->
                        InvertCall(graph[Reverse(sourcePath)[k]], TRUE)]
              /\ CallsIn(log', "compose") = <<>>
              /\ graph' = graph
              /\ call'.sourceHead = call'.targetHead
                   => (log' = <<>> /\ result'.change = call'.change)]_vars

\* a change rebased back over two source commits and forward over two
\* target commits
C12_Witness ==
    /\ call.op = "rebaseChange"
    /\ result.status = "returned"
    /\ Len(CallSourcePath) >= 2
    /\ Len(CallTargetPath) >= 2
    /\ Len(log) = 2 * Len(CallSourcePath) + Len(CallTargetPath)

\* a change and a tagged change with the freshly minted tags of rollback
\* inverses blanked
RECURSIVE WithoutMintedTags(_)
RECURSIVE TaggedWithoutMintedTags(_)
WithoutMintedTags(t) ==
    IF t[1] = "rebase"
    THEN <<"rebase", WithoutMintedTags(t[2]), TaggedWithoutMintedTags(t[3])>>
    ELSE IF t[1] = "compose"
    THEN <<"compose", [i \in 1..Len(t[2]) |-> TaggedWithoutMintedTags(t[2][i])]>>
    ELSE t

TaggedWithoutMintedTags(x) ==
    [revision |-> IF x.rollbackOf # 0 THEN 0 ELSE x.revision,
     change |-> WithoutMintedTags(x.change),
     rollbackOf |-> x.rollbackOf]

\* the parent link of the i-th commit of commits as a caller can compare it
\* across calls: the previous commit of the list, the new base, or a commit
\* that existed before
ParentLink(g, commits, newBase, i) ==
    IF i > 1 /\ g[commits[i]].parent = commits[i - 1] THEN <<"previous">>
    ELSE IF g[commits[i]].parent = newBase THEN <<"newBase">>
    ELSE <<"commit", g[commits[i]].parent>>

\* what two results of rebaseBranch must agree on
Outcome(g, r, lg) ==
    [newBase |-> r.newBase,
     deletedSourceCommits |-> r.deletedSourceCommits,
     newSourceCommits |->
        [i \in 1..Len(r.newSourceCommits) |->
            [revision |-> g[r.newSourceCommits[i]].revision,
             sessionId |-> g[r.newSourceCommits[i]].sessionId,
             change |-> WithoutMintedTags(g[r.newSourceCommits[i]].change),
             parent |-> ParentLink(g, r.newSourceCommits, r.newBase, i)]],
     composed |->
        [k \in 1..Len(CallsIn(lg, "compose")) |->
            [i \in 1..Len(CallsIn(lg, "compose")[k].changes) |->
                TaggedWithoutMintedTags(CallsIn(lg, "compose")[k].changes[i])]]]

AlgebraThrew == call.failAt # 0 /\ Len(log) >= call.failAt

(***************************************************************************)
(* C14: when the supplied rebase, invert or compose throws during          *)
(* rebaseBranch or rebaseChange, the exception leaves the call at once     *)
(* (the throwing call is the last algebra call: nothing is retried or      *)
(* caught) and the call returns no result: no head, change, newBase or     *)
(* commit list reaches the caller.  A call throws only in that case.       *)
(***************************************************************************)
C14_AlgebraExceptionPropagates ==
    call.op \in {"rebaseBranch", "rebaseChange"} =>
        /\ AlgebraThrew <=> result.status = "threw"
        /\ AlgebraThrew =>
            /\ Len(log) = call.failAt
            /\ call.op = "rebaseBranch" =>
                 result = [status |-> "threw", newHead |-> 0,
                           sourceChange |-> Undefined, newBase |-> 0,
                           deletedSourceCommits |-> <<>>,
                           newSourceCommits |-> <<>>]
            /\ call.op = "rebaseChange" =>
                 result = [status |-> "threw", change |-> Undefined]

\* rebaseBranch was stopped by a throwing invert after it had rebased a
\* source commit and made its new commit
C14_Witness ==
    /\ IsRebaseBranch
    /\ result.status = "threw"
    /\ Len(log) = 2
    /\ log[1].op = "rebase"
    /\ log[2].op = "invert"
    /\ graph[Len(graph)].change = Rebase(log[1].change, log[1].over)

(***************************************************************************)
(* C15: when the parent chains of the two descendants given to             *)
(* findCommonAncestor never intersect, it returns undefined and every      *)
(* supplied out-path is empty on return, whatever the walk had put in it.  *)
(***************************************************************************)
C15_UnrelatedClearsPaths ==
    (/\ call.op = "findCommonAncestor"
     /\ call.descendantA.path = <<>> /\ call.descendantB.path = <<>>
     /\ Unrelated(graph, call.descendantA.commit, call.descendantB.commit))
    => /\ result.status = "returned"
       /\ result.ancestor = 0
       /\ result.pathA = <<>>
       /\ result.pathB = <<>>

\* two unrelated commits, both with an out-path, one of them two parent
\* links below its root
C15_Witness ==
    /\ call.op = "findCommonAncestor"
    /\ call.descendantA.hasPath /\ call.descendantB.hasPath
    /\ call.descendantA.commit # 0 /\ call.descendantB.commit # 0
    /\ Unrelated(graph, call.descendantA.commit, call.descendantB.commit)
    /\ Depth(graph, call.descendantA.commit) >= 3
    /\ result.walked >= 4

(***************************************************************************)
(* C16: findAncestor([d, path], predicate) returns the first commit,       *)
(* starting with d itself and following parent links, for which predicate  *)
(* holds, so d with an empty path when predicate(d) holds, and fills path  *)
(* with the commits strictly below that commit down to d inclusive, in     *)
(* ancestor-to-descendant order; when no commit up to the root satisfies   *)
(* predicate it returns undefined and path is empty.                       *)
(***************************************************************************)
C16_FirstMatchingAncestor ==
    call.op = "findAncestor" =>
        LET d == call.descendant.commit
            chain == ChainUp(graph, d)
            matches == {i \in 1..Len(chain) :
                          graph[chain[i]].revision = call.predicateTag}
            first == CHOOSE i \in matches : \A j \in matches : i <= j
        IN  /\ result.status = "returned"
            /\ matches # {} =>
                /\ result.ancestor = chain[first]
                /\ call.descendant.hasPath =>
                     result.path = Reverse(Take(chain, first - 1))
                /\ graph[d].revision = call.predicateTag =>
                     (result.ancestor = d /\ result.path = <<>>)
            /\ matches = {} =>
                /\ result.ancestor = 0
                /\ result.path = <<>>

\* the predicate holds two parent links above the descendant, at a commit
\* that is not the root
C16_Witness ==
    /\ call.op = "findAncestor"
    /\ call.descendant.hasPath
    /\ result.ancestor # 0
    /\ Len(result.path) = 2
    /\ graph[result.ancestor].parent # 0

(***************************************************************************)
(* C17: in every result of rebaseBranch, each commit listed in             *)
(* newSourceCommits has a parent that is either the previous commit of     *)
(* newSourceCommits or newBase.                                            *)
(***************************************************************************)
C17_ParentIsPreviousOrNewBase ==
    (IsRebaseBranch /\ result.status = "returned") =>
        \A i \in 1..Len(result.newSourceCommits) :
            \/ i > 1 /\ graph[result.newSourceCommits[i]].parent
                          = result.newSourceCommits[i - 1]
            \/ graph[result.newSourceCommits[i]].parent = result.newBase

\* C17, amended: in every result of rebaseBranch, newSourceCommits is a
\* parent chain that starts below the common ancestor of the two branches:
\* the first commit (a reused target commit) has the common ancestor as
\* parent, every other commit has the previous commit of the list as
\* parent, and the first commit made by the call is parented on newBase.
C17_ChainFromAncestor ==
    (IsRebaseBranch /\ result.status = "returned") =>
        /\ \A i \in 1..Len(result.newSourceCommits) :
              graph[result.newSourceCommits[i]].parent
                = IF i = 1 THEN CallAncestor ELSE result.newSourceCommits[i - 1]
        /\ result.newSourceCommits # <<>> =>
              /\ Len(ResultRebasePath) \in 1..Len(result.newSourceCommits)
              /\ result.newSourceCommits[Len(ResultRebasePath)] = result.newBase
              /\ result.newBase # CallAncestor

\* two commits made by the call behind two reused target commits
C17_Witness ==
    /\ OnRebasingPath
    /\ Len(ResultRebasePath) >= 2
    /\ Len(EmittedCommits) >= 2

\* no revision occurs twice on the chain of the source head nor on the chain
\* of the target head
BranchesHaveUniqueTags ==
    /\ Distinct(RevisionsOf(graph, ChainUp(graph, call.sourceHead)))
    /\ Distinct(RevisionsOf(graph, ChainUp(graph, call.targetHead)))

(***************************************************************************)
(* C18: no revision tag is lost or duplicated.  For branches that each     *)
(* have unique tags and a rebaseBranch call that takes the rebasing path   *)
(* and returns, every revision of the original source path appears in      *)
(* newSourceCommits, on a reused target commit or on a commit made by the  *)
(* call, and no revision appears twice in newSourceCommits.                *)
(***************************************************************************)
C18_NoTagLostOrDuplicated ==
    (OnRebasingPath /\ BranchesHaveUniqueTags) =>
        /\ \A i \in 1..Len(CallSourcePath) :
              \/ graph[CallSourcePath[i]].revision \in CancelledTags
              \/ graph[CallSourcePath[i]].revision
                    \in Range(RevisionsOf(graph, EmittedCommits))
        /\ Range(RevisionsOf(graph, CallSourcePath))
              \subseteq Range(RevisionsOf(graph, result.newSourceCommits))
        /\ Distinct(RevisionsOf(graph, result.newSourceCommits))

\* a cancelled commit that is not at the front of the source path, and a
\* surviving one rebased by the main pass
C18_Witness ==
    /\ OnRebasingPath
    /\ BranchesHaveUniqueTags
    /\ Len(CallSourcePath) >= 2
    /\ graph[CallSourcePath[1]].revision \notin CancelledTags
    /\ graph[CallSourcePath[2]].revision \in CancelledTags
    /\ CallsOf("rebase") # {}

\* the length of the longest common prefix of p and q
CommonPrefixLen(p, q) ==
    CHOOSE k \in 0..Min(Len(p), Len(q)) :
        /\ \A i \in 1..k : p[i] = q[i]
        /\ k < Min(Len(p), Len(q)) => p[k + 1] # q[k + 1]

\* the source commits left once the prefix the source path shares, by
\* revision, with the target rebase path is removed
SourceAfterCommonPrefix ==
    Drop(CallSourcePath,
         CommonPrefixLen(RevisionsOf(graph, CallSourcePath),
                         RevisionsOf(graph, ResultRebasePath)))

\* a rebaseBranch call that returned from its main pass
MainPassReturned == OnRebasingPath /\ log # <<>>

\* the tagged changes the algebra was handed as rebase-over or compose
\* arguments
ChangesHandedOver ==
    UNION {IF log[k].op = "rebase" THEN {log[k].over}
           ELSE IF log[k].op = "compose" THEN Range(log[k].changes)
           ELSE {} : k \in 1..Len(log)}

(***************************************************************************)
(* C19: the main pass of rebaseBranch skips cancelled-out source commits   *)
(* entirely: they are not re-emitted, invert is never called on them, and  *)
(* no rollback inverse of them is among the changes later commits are      *)
(* rebased over or the changes composed at the end.                        *)
(***************************************************************************)
C19_CancelledSkippedEntirely ==
    MainPassReturned =>
        /\ \A i \in 1..Len(EmittedCommits) :
              graph[EmittedCommits[i]].revision \notin CancelledTags
        /\ \A k \in CallsOf("invert") : log[k].revision \notin CancelledTags
        /\ \A x \in ChangesHandedOver : x.rollbackOf \notin CancelledTags

\* C19, amended: the main pass never re-emits a cancelled-out source
\* commit, and a commit removed with the common prefix of the two paths is
\* never inverted; every other source commit, cancelled out or not, is
\* inverted exactly once, in source order, and its rollback inverse is
\* among the changes composed at the end, most recent first.
C19_CancelledInvertedNotEmitted ==
    MainPassReturned =>
        /\ \A i \in 1..Len(EmittedCommits) :
              graph[EmittedCommits[i]].revision \notin CancelledTags
        /\ CallsIn(log, "invert")
             = [i \in 1..Len(SourceAfterCommonPrefix) |->
                    InvertCall(graph[SourceAfterCommonPrefix[i]], TRUE)]
        /\ Len(CallsIn(log, "compose")) = 1
        /\ LET composed == log[Len(log)].changes
               n == Len(SourceAfterCommonPrefix)
           IN  /\ log[Len(log)].op = "compose"
               /\ Len(composed) >= n
               /\ \A i \in 1..n :
                     /\ composed[i].rollbackOf
                          = graph[SourceAfterCommonPrefix[n + 1 - i]].revision
                     /\ composed[i].change
                          = Invert(graph[SourceAfterCommonPrefix[n + 1 - i]], TRUE)
               /\ \A i \in (n + 1)..Len(composed) : composed[i].rollbackOf = 0

\* behind a stripped common prefix, a cancelled-out commit followed by a
\* surviving one that is rebased over its rollback inverse
C19_Witness ==
    /\ MainPassReturned
    /\ Len(SourceAfterCommonPrefix) < Len(CallSourcePath)
    /\ \E i \in 1..Len(SourceAfterCommonPrefix) :
          /\ graph[SourceAfterCommonPrefix[i]].revision \in CancelledTags
          /\ \E k \in CallsOf("rebase") :
                log[k].over.rollbackOf = graph[SourceAfterCommonPrefix[i]].revision

\* the sequences of seqs one after the other
RECURSIVE Concat(_)
Concat(seqs) == IF seqs = <<>> THEN <<>> ELSE Head(seqs) \o Concat(Tail(seqs))

\* the rebase calls made to rebase change over each element of overs in turn
RebaseCallsOver(change, overs) ==
    [k \in 1..Len(overs) |->
        RebaseCall(FoldRebase(change, Take(overs, k - 1)), overs[k])]

(***************************************************************************)
(* C20: sandwich order.  In the main pass the change of each re-emitted    *)
(* source commit is rebased successively over the rollback inverses of all *)
(* earlier source commits of the pass, most recent first, then over the    *)
(* remaining target rebase path in ancestor-to-descendant order, then over *)
(* the rebased versions of the earlier re-emitted commits in emission      *)
(* order; nothing else is rebased over and the order is never permuted.    *)
(* (The rollback inverses of the pass carry the tags minted by the call,   *)
(* the last of which is nextTag - 1.)                                      *)
(***************************************************************************)
C20_SandwichOrder ==
    MainPassReturned =>
        \A rest \in {SourceAfterCommonPrefix}, emitted \in {EmittedCommits},
           cancelled \in {CancelledTags} :
          \A remainingTarget \in {Drop(ResultRebasePath,
                                       Len(CallSourcePath) - Len(rest))},
             inverses \in {RollbackInverses(graph, rest, nextTag - Len(rest))},
             reemitted \in {SelectSeq([q \in 1..Len(rest) |-> q],
                                LAMBDA q : graph[rest[q]].revision \notin cancelled)} :
            /\ Len(emitted) = Len(reemitted)
            /\ \A overs \in {[j \in 1..Len(emitted) |->
                                Reverse(Take(inverses, reemitted[j] - 1))
                                  \o [i \in 1..Len(remainingTarget) |->
                                        Tagged(graph[remainingTarget[i]])]
                                  \o [i \in 1..(j - 1) |->
                                        Tagged(graph[emitted[i]])]]} :
                  /\ \A j \in 1..Len(emitted) :
                        graph[emitted[j]].change
                          = FoldRebase(graph[rest[reemitted[j]]].change, overs[j])
                  /\ CallsIn(log, "rebase")
                       = Concat([j \in 1..Len(emitted) |->
                                   RebaseCallsOver(graph[rest[reemitted[j]]].change,
                                                   overs[j])])

\* a third source commit rebased over two rollback inverses, a target commit
\* and two rebased commits
C20_Witness ==
    /\ MainPassReturned
    /\ Len(EmittedCommits) = 3
    /\ \E k \in CallsOf("rebase") :
          /\ k + 4 \in CallsOf("rebase")
          /\ log[k].over.rollbackOf = graph[CallSourcePath[2]].revision
          /\ log[k + 1].over.rollbackOf = graph[CallSourcePath[1]].revision
          /\ log[k + 2].over = Tagged(graph[CallTargetPath[1]])
          /\ log[k + 3].over = Tagged(graph[EmittedCommits[1]])
          /\ log[k + 4].over = Tagged(graph[EmittedCommits[2]])

\* the commits of path as tagged changes
TaggedPath(g, path) == [i \in 1..Len(path) |-> Tagged(g[path[i]])]

\* the target commits up to the new base that follow the common prefix
TargetAfterCommonPrefix ==
    Drop(ResultRebasePath, Len(CallSourcePath) - Len(SourceAfterCommonPrefix))

\* the changes of the only compose call of the log, <<>> when there is not
\* exactly one
ComposedOnce ==
    IF Len(CallsIn(log, "compose")) = 1 /\ log[Len(log)].op = "compose"
    THEN log[Len(log)].changes
    ELSE <<>>

(***************************************************************************)
(* C21: the change returned by the main pass of rebaseBranch is the result *)
(* of exactly one compose call, whose argument is the rollback inverses of *)
(* all original source commits, most recent first, followed by all target  *)
(* commits from the common ancestor to newBase and then the newly rebased  *)
(* source commits, in ancestor-to-descendant order.                        *)
(***************************************************************************)
C21_ComposeOfWholePaths ==
    MainPassReturned =>
        /\ Len(CallsIn(log, "compose")) = 1
        /\ result.sourceChange = Compose(ComposedOnce)
        /\ [i \in 1..Len(ComposedOnce) |-> TaggedWithoutMintedTags(ComposedOnce[i])]
             = [i \in 1..Len(CallSourcePath) |->
                  TaggedWithoutMintedTags(
                      RollbackInverses(graph, Reverse(CallSourcePath), 1)[i])]
               \o TaggedPath(graph, ResultRebasePath)
               \o TaggedPath(graph, EmittedCommits)

\* C21, amended: the change returned by the main pass is the result of
\* exactly one compose call, whose argument is the rollback inverses of the
\* source commits left after the common prefix of the two paths is removed,
\* most recent first, followed by the target commits up to newBase left
\* after that prefix is removed and then the newly rebased source commits,
\* in ancestor-to-descendant order.
C21_ComposeAfterCommonPrefix ==
    MainPassReturned =>
        \A rest \in {SourceAfterCommonPrefix} :
            /\ Len(CallsIn(log, "compose")) = 1
            /\ log[Len(log)].op = "compose"
            /\ result.sourceChange = Compose(ComposedOnce)
            /\ ComposedOnce
                 = Reverse(RollbackInverses(graph, rest, nextTag - Len(rest)))
                   \o TaggedPath(graph, TargetAfterCommonPrefix)
                   \o TaggedPath(graph, EmittedCommits)

\* behind a stripped common prefix, two source commits were inverted and
\* one of them re-emitted
C21_Witness ==
    /\ MainPassReturned
    /\ Len(SourceAfterCommonPrefix) = 2
    /\ Len(CallSourcePath) = 3
    /\ EmittedCommits # <<>>
    /\ TargetAfterCommonPrefix # <<>>

\* a returned rebaseBranch call whose target rebase path was empty once the
\* common prefix was removed
PureReparenting == OnRebasingPath /\ TargetAfterCommonPrefix = <<>>

(***************************************************************************)
(* C22: pure reparenting.  When the target rebase path is empty after the  *)
(* common leading run of equal tags is removed, rebaseBranch mints for     *)
(* each remaining source commit, in original order, a copy with the same   *)
(* revision, sessionId and change whose parent is the previous copy (the   *)
(* first one's parent is newBase), returns the last copy (newBase when     *)
(* none remain) as the new head with an undefined change, and calls none   *)
(* of rebase, invert, compose.                                             *)
(***************************************************************************)
C22_PureReparenting ==
    PureReparenting =>
        \A rest \in {SourceAfterCommonPrefix}, copies \in {EmittedCommits} :
            /\ Len(copies) = Len(rest)
            /\ \A i \in 1..Len(rest) :
                  graph[copies[i]]
                    = [revision |-> graph[rest[i]].revision,
                       sessionId |-> graph[rest[i]].sessionId,
                       change |-> graph[rest[i]].change,
                       parent |-> IF i = 1 THEN result.newBase ELSE copies[i - 1]]
            /\ Distinct(copies)
            /\ Range(copies)
                 \cap (Range(CallSourcePath)
                         \cup AncestorsOrSelf(graph, call.targetHead)) = {}
            /\ result.newHead
                 = IF rest = <<>> THEN result.newBase ELSE copies[Len(copies)]
            /\ result.sourceChange = Undefined
            /\ log = <<>>

\* two source commits of different payloads reparented behind a stripped
\* prefix
C22_Witness ==
    /\ PureReparenting
    /\ Len(SourceAfterCommonPrefix) = 2
    /\ Len(CallSourcePath) = 3
    /\ graph[SourceAfterCommonPrefix[1]].change
         # graph[SourceAfterCommonPrefix[2]].change

C24_NewSourceCommitsIsChainToHead ==
    (IsRebaseBranch /\ result.status = "returned"
        /\ result.newSourceCommits # <<>>) =>
        /\ result.newSourceCommits
             = PathBetween(graph, CallAncestor, result.newHead)
        /\ graph[result.newSourceCommits[1]].parent = CallAncestor
        /\ result.newSourceCommits[Len(result.newSourceCommits)] = result.newHead
        /\ Take(result.newSourceCommits, Len(ResultRebasePath))
             = PathBetween(graph, CallAncestor, result.newBase)
        /\ result.newBase \in AncestorsOrSelf(graph, call.targetHead)
        /\ result.newBase \in Range(result.newSourceCommits)

\* a new head behind one reused target commit and two commits made by the
\* call
C24_Witness ==
    /\ IsRebaseBranch
    /\ result.status = "returned"
    /\ Len(result.newSourceCommits) = 3
    /\ result.newSourceCommits[1] = result.newBase
    /\ result.newHead \notin AncestorsOrSelf(graph, call.targetHead)

(***************************************************************************)
(* C25: whenever rebaseBranch takes the rebasing path (targetCommit is on  *)
(* the target path), deletedSourceCommits is the complete original source  *)
(* path, the original commits in order, including the commits that are     *)
(* re-emitted and the commits of the common prefix that is shifted off     *)
(* before the main pass.                                                   *)
(***************************************************************************)
C25_DeletedIsWholeSourcePath ==
    OnRebasingPath =>
        /\ result.deletedSourceCommits
             = PathBetween(graph, CallAncestor, call.sourceHead)
        /\ \A i \in 1..Len(result.deletedSourceCommits) :
               result.deletedSourceCommits[i] \in AncestorsOrSelf(graph, call.sourceHead)
        /\ Range(Survivors) \subseteq Range(result.deletedSourceCommits)
        /\ \A i \in 1..(Len(CallSourcePath) - Len(SourceAfterCommonPrefix)) :
               result.deletedSourceCommits[i] = CallSourcePath[i]

\* a common prefix is shifted off and a later source commit survives: both
\* are in the list
C25_Witness ==
    /\ OnRebasingPath
    /\ Len(SourceAfterCommonPrefix) < Len(CallSourcePath)
    /\ Survivors # <<>>
    /\ Len(result.deletedSourceCommits) >= 2
    /\ result.sourceChange # Undefined

(***************************************************************************)
(* C26: the change returned by rebaseBranch is undefined exactly when the  *)
(* call returns early (targetCommit is not on the target path) or is a     *)
(* pure reparenting.  In every other return, the one with an empty source  *)
(* path included, compose is called exactly once, as the last algebra      *)
(* call, and its result is the returned change.  An undefined change may   *)
(* come with a new head that is not sourceHead.                            *)
(***************************************************************************)
C26_UndefinedChangeCases ==
    (IsRebaseBranch /\ result.status = "returned") =>
        /\ result.sourceChange = Undefined
             <=> (IndexOf(CallTargetPath, call.targetCommit) = 0 \/ PureReparenting)
        /\ result.sourceChange = Undefined => CallsIn(log, "compose") = <<>>
        /\ result.sourceChange # Undefined =>
             /\ Len(CallsIn(log, "compose")) = 1
             /\ log[Len(log)].op = "compose"
             /\ result.sourceChange = Compose(log[Len(log)].changes)
        /\ (OnRebasingPath /\ CallSourcePath = <<>>) =>
             result.sourceChange # Undefined

\* a pure reparenting that copies a commit: no change, yet a head that is
\* not the commit the call was given
C26_Witness ==
    /\ IsRebaseBranch
    /\ result.status = "returned"
    /\ result.sourceChange = Undefined
    /\ result.newHead # call.sourceHead
    /\ result.newHead \notin AncestorsOrSelf(graph, call.targetHead)

(***************************************************************************)
(* C27: counter-algebra consistency.  Provided commits that share a        *)
(* revision tag carry the same payload, for every rebaseBranch call the    *)
(* sum of the original source path plus the returned change (undefined     *)
(* counted as 0) is the sum of the changes of newSourceCommits.            *)
(***************************************************************************)
C27_SumsAgree ==
    (IsRebaseBranch /\ result.status = "returned" /\ SamePayloadPerTag) =>
        NetEffect(graph, CallSourcePath) + Eval(result.sourceChange)
            = NetEffect(graph, result.newSourceCommits)

\* C27, amended: the sums agree for every call whose targetCommit is on the
\* target path; a call that returns early reports no new source commits and
\* no change, so there the sums agree only if the source path sums to 0.
C27_SumsAgreeOnRebasingPath ==
    (IsRebaseBranch /\ result.status = "returned" /\ SamePayloadPerTag) =>
        \A before \in {NetEffect(graph, CallSourcePath)},
           after \in {NetEffect(graph, result.newSourceCommits)} :
            /\ OnRebasingPath => before + Eval(result.sourceChange) = after
            /\ ~OnRebasingPath => (after = 0 /\ Eval(result.sourceChange) = 0)

\* a rebase that shifted a common prefix off, inverted the rest of the
\* source path and composed a change that is not 0
C27_Witness ==
    /\ OnRebasingPath
    /\ SamePayloadPerTag
    /\ Len(SourceAfterCommonPrefix) < Len(CallSourcePath)
    /\ SourceAfterCommonPrefix # <<>>
    /\ Eval(result.sourceChange) # 0
    /\ NetEffect(graph, CallSourcePath) # 0

\* a rebaseBranch call whose sourceHead is a proper ancestor of targetCommit,
\* itself on the chain of targetHead
EmptySourceBranch ==
    /\ IsRebaseBranch
    /\ call.targetCommit \in AncestorsOrSelf(graph, call.targetHead)
    /\ call.sourceHead \in AncestorsOrSelf(graph, call.targetCommit)
    /\ call.sourceHead # call.targetCommit

(***************************************************************************)
(* C28: rebasing an empty source branch.  When sourceHead is an ancestor   *)
(* of targetCommit, a commit of the target branch, so that the source path *)
(* is empty, a rebaseBranch call whose algebra does not throw returns      *)
(* targetCommit itself as the new head and as newBase, mints no commit,    *)
(* calls neither rebase nor invert, returns deletedSourceCommits = <<>>    *)
(* and newSourceCommits = the target path from sourceHead (exclusive) to   *)
(* targetCommit (inclusive), and returns compose of exactly those target   *)
(* commits as the change.                                                  *)
(***************************************************************************)
C28_EmptySourceBranch ==
    [][(EmptySourceBranch' /\ call'.failAt = 0) =>
          \A path \in {PathBetween(graph', call'.sourceHead, call'.targetCommit)} :
            /\ result'.status = "returned"
            /\ result'.newHead = call'.targetCommit
            /\ result'.newBase = call'.targetCommit
            /\ graph' = graph
            /\ nextTag' = nextTag
            /\ log' = <<ComposeCall(TaggedPath(graph, path))>>
            /\ result'.deletedSourceCommits = <<>>
            /\ result'.newSourceCommits = path
            /\ result'.sourceChange = Compose(TaggedPath(graph, path))]_vars

\* sourceHead two commits behind targetCommit, with the target branch going
\* on after targetCommit
C28_Witness ==
    /\ EmptySourceBranch
    /\ result.status = "returned"
    /\ Len(result.newSourceCommits) = 2
    /\ call.targetHead # call.targetCommit
    /\ result.sourceChange # Undefined

\* in graph g, commit c is the only commit of its branch below the chain of
\* targetHead and carries a tag that the target path does not
SingleUnmatchedCommit(g, c, targetHead) ==
    /\ g[c].parent # 0
    /\ g[c].parent \in AncestorsOrSelf(g, targetHead)
    /\ c \notin AncestorsOrSelf(g, targetHead)
    /\ g[c].revision
         \notin Range(RevisionsOf(g, PathBetween(g, g[c].parent, targetHead)))

(***************************************************************************)
(* C29: for a source branch that is a single commit c directly on the      *)
(* common ancestor, with a tag that no target commit carries, the change   *)
(* of the head returned by rebaseBranch(c, targetHead) is the change       *)
(* returned by rebaseChange(c.change, c.parent, targetHead): both are      *)
(* c.change rebased over the target path from the ancestor down, and no    *)
(* inverse takes part in it.                                               *)
(***************************************************************************)
C29_SingleCommitAgreesWithRebaseChange ==
    [][(/\ call'.op = "rebaseBranch"
        /\ result'.status = "returned"
        /\ call'.targetCommit = call'.targetHead
        /\ SingleUnmatchedCommit(graph, call'.sourceHead, call'.targetHead)) =>
          \A c \in {graph[call'.sourceHead]} :
          \A rc \in {rebaseChange(graph, nextTag, c.change, c.parent,
                                  call'.targetHead, 0)},
             over \in {TaggedPath(graph, PathBetween(graph, c.parent,
                                                     call'.targetHead))} :
            /\ rc.status = "returned"
            /\ graph'[result'.newHead].change = rc.change
            /\ rc.change = FoldRebase(c.change, over)
            /\ CallsIn(rc.log, "invert") = <<>>
            /\ \A i \in 1..Len(log') :
                  log'[i].op = "rebase" => log'[i].over \in Range(over)]_vars

\* one commit rebased over a target path of two commits
C29_Witness ==
    /\ IsRebaseBranch
    /\ result.status = "returned"
    /\ call.targetCommit = call.targetHead
    /\ Len(CallSourcePath) = 1
    /\ Len(CallTargetPath) = 2
    /\ graph[CallSourcePath[1]].revision
         \notin Range(RevisionsOf(graph, CallTargetPath))
    /\ graph[result.newHead].change
         = FoldRebase(graph[call.sourceHead].change,
                      TaggedPath(graph, CallTargetPath))
    /\ graph[result.newHead].change # graph[call.sourceHead].change

\* what findCommonAncestor has to give when commit x is y itself or an
\* ancestor of y: x, nothing in x's out-path, the chain below x down to y in
\* y's out-path
AncestorOfOther(x, y, hasPathY, pathX, pathY) ==
    /\ result.status = "returned"
    /\ result.ancestor = x
    /\ pathX = <<>>
    /\ hasPathY =>
         /\ pathY = PathBetween(graph, x, y)
         /\ Len(pathY) = Depth(graph, y) - Depth(graph, x)
         /\ y # x => (pathY[Len(pathY)] = y /\ graph[pathY[1]].parent = x)

(***************************************************************************)
(* C30: when one argument of findCommonAncestor is the other one or an     *)
(* ancestor of it, the returned ancestor is that commit, its own out-path  *)
(* is empty and the other out-path is the full chain from just below it to *)
(* the other commit; for identical arguments the function returns before   *)
(* it follows any parent link.                                             *)
(***************************************************************************)
C30_AncestorArgument ==
    (/\ call.op = "findCommonAncestor"
     /\ call.descendantA.path = <<>> /\ call.descendantB.path = <<>>) =>
        \A a \in {call.descendantA.commit}, b \in {call.descendantB.commit} :
            /\ (a # 0 /\ b # 0 /\ a \in AncestorsOrSelf(graph, b)) =>
                 AncestorOfOther(a, b, call.descendantB.hasPath,
                                 result.pathA, result.pathB)
            /\ (a # 0 /\ b # 0 /\ b \in AncestorsOrSelf(graph, a)) =>
                 AncestorOfOther(b, a, call.descendantA.hasPath,
                                 result.pathB, result.pathA)
            /\ a = b =>
                 /\ result.status = "returned"
                 /\ result.ancestor = a
                 /\ result.walked = 0
                 /\ result.pathA = <<>> /\ result.pathB = <<>>

\* the second argument is the grandparent of the first, both with an
\* out-path
C30_Witness ==
    /\ call.op = "findCommonAncestor"
    /\ call.descendantA.hasPath /\ call.descendantB.hasPath
    /\ call.descendantB.commit # 0
    /\ call.descendantA.commit # call.descendantB.commit
    /\ call.descendantB.commit \in AncestorsOrSelf(graph, call.descendantA.commit)
    /\ graph[call.descendantB.commit].parent # 0
    /\ result.ancestor = call.descendantB.commit
    /\ Len(result.pathA) = 2
    /\ result.pathB = <<>>

(***************************************************************************)
(* C31: findCommonAncestor aborts with an assertion, before it follows any *)
(* parent link and without modifying either array, when it is given an     *)
(* out-path array that is not empty.                                       *)
(***************************************************************************)
C31_NonEmptyOutPathAsserts ==
    (/\ call.op = "findCommonAncestor"
     /\ \/ call.descendantA.hasPath /\ call.descendantA.path # <<>>
        \/ call.descendantB.hasPath /\ call.descendantB.path # <<>>)
    => /\ result.status = "assert"
       /\ result.walked = 0
       /\ result.pathA = call.descendantA.path
       /\ result.pathB = call.descendantB.path

\* an out-path that already holds a commit, handed over with two related
\* commits that an empty out-path would have been filled for
C31_Witness ==
    /\ call.op = "findCommonAncestor"
    /\ call.descendantA.hasPath /\ call.descendantA.path # <<>>
    /\ call.descendantB.hasPath /\ call.descendantB.path = <<>>
    /\ call.descendantA.commit # 0 /\ call.descendantB.commit # 0
    /\ call.descendantA.commit # call.descendantB.commit
    /\ CommonAncestors(graph, call.descendantA.commit, call.descendantB.commit) # {}
    /\ result.status = "assert"

\* the rollback inverses among the changes the algebra was handed
InversesHandedOver == {x \in ChangesHandedOver : x.rollbackOf # 0}

(***************************************************************************)
(* C32: every rollback inverse built by rebaseBranch and rebaseChange is   *)
(* the result of invert(commit, isRollback = true) on an original commit   *)
(* of the source path, carries a newly minted revision, different from the *)
(* commit's own tag, from every tag of the graph and from the tag of every *)
(* other inverse, and records the revision of the original commit as the   *)
(* one rolled back.                                                        *)
(***************************************************************************)
C32_RollbackInverses ==
    call.op \in {"rebaseBranch", "rebaseChange"} =>
        \A inverses \in {InversesHandedOver}, tags \in {Revisions(graph)} :
            /\ \A x \in inverses :
                  /\ x.revision # x.rollbackOf
                  /\ x.revision \notin tags
                  /\ x.revision < nextTag
                  /\ \E i \in 1..Len(CallSourcePath) :
                        /\ graph[CallSourcePath[i]].revision = x.rollbackOf
                        /\ x.change = Invert(graph[CallSourcePath[i]], TRUE)
                  /\ \A y \in inverses : y.revision = x.revision => y = x
            /\ \A k \in CallsOf("invert") :
                  /\ log[k].isRollback
                  /\ \E i \in 1..Len(CallSourcePath) :
                        /\ graph[CallSourcePath[i]].revision = log[k].revision
                        /\ graph[CallSourcePath[i]].change = log[k].change

\* a rebaseBranch call that built three inverses
C32_Witness ==
    /\ IsRebaseBranch
    /\ result.status = "returned"
    /\ Cardinality(InversesHandedOver) = 3
    /\ Len(result.newSourceCommits) >= 4

\* the work a finished call has done is bounded by the lengths of the chains
\* it was given
WorkBounded ==
    IF call.op = "findCommonAncestor"
    THEN /\ result.status \in {"returned", "assert"}
         /\ result.walked <= Depth(graph, call.descendantA.commit)
                               + Depth(graph, call.descendantB.commit)
         /\ result.status = "returned" =>
              result = findCommonAncestor(graph, call.descendantA, call.descendantB)
    ELSE IF call.op = "findAncestor"
    THEN /\ result.status = "returned"
         /\ Len(result.path) <= Depth(graph, call.descendant.commit)
    ELSE \A s \in {Len(CallSourcePath)}, t \in {Len(CallTargetPath)} :
         /\ result.status \in {"returned", "assert", "threw"}
         /\ call.failAt = 0 => result.status # "threw"
         /\ Len(CallsIn(log, "invert")) <= s
         /\ Len(CallsIn(log, "rebase")) <= (s + 1) * (s + t)
         /\ Len(CallsIn(log, "compose")) <= 1
         /\ call.op = "rebaseBranch" =>
              Len(result.newSourceCommits) <= s + t

(***************************************************************************)
(* C33: on a finite acyclic commit graph, with an algebra whose operations *)
(* terminate, findCommonAncestor, findAncestor, rebaseChange and           *)
(* rebaseBranch run to completion (return, assert, or pass on what the     *)
(* algebra threw): the ancestor walk, taken one loop iteration at a time,  *)
(* ends once both chains are exhausted or a visited commit is met, having  *)
(* followed no more parent links than the two chains have, and the algebra *)
(* calls and new commits of rebaseBranch and rebaseChange are bounded by   *)
(* the lengths of the source and target paths.                             *)
(***************************************************************************)
C33_RunsToCompletion ==
    /\ [](pc = "done" => WorkBounded)
    /\ [](pc = "walking" =>
            result.walked <= Depth(graph, call.descendantA.commit)
                               + Depth(graph, call.descendantB.commit))
    /\ (pc = "walking") ~> (pc = "done")

\* a walk of two unrelated commits that took four iterations to exhaust
\* both chains
C33_Witness ==
    /\ pc = "walking"
    /\ result.a = 0
    /\ result.b # 0
    /\ result.walked >= 4
    /\ Unrelated(graph, call.descendantA.commit, call.descendantB.commit)

(***************************************************************************)
(* Two calls under way at once (a call made from inside the algebra of     *)
(* another, or on another thread of control): a rebaseBranch call and a    *)
(* second rebaseBranch or a rebaseChange call.  Each call p has            *)
(* its locals in result[p], its own algebra log in log[p] and its position *)
(* in pc[p]; the commit graph and the generator of revision tags are the   *)
(* only state the calls share.  One step is one algebra call or one new    *)
(* commit.  call[p] keeps the number of commits the calls started with.    *)
(***************************************************************************)
Procs == 1..2

\* the commits of g that no commit is parented on
Tips(g) == {c \in 1..Len(g) : \A d \in 1..Len(g) : g[d].parent # c}

\* the graphs the two calls are made on: branches of full length whose
\* source commits are new, but for the first one in one of them, the
\* example of the doc comment, and the branch of three new commits
ReentrantGraphs ==
    {FamilyGraph(MaxTarget, MaxSource, m, FALSE, FALSE) :
        m \in {[j \in 1..MaxSource |-> 0],
                [j \in 1..MaxSource |-> IF j = 1 THEN 1 ELSE 0]}}
    \cup {FamilyGraph(4, 3, <<1, 3, 0>>, FALSE, FALSE)}
    \cup ThreeSourceGraphs

\* the calls made on g: a tip rebased onto another tip or onto its parent,
\* or a change rebased from one tip to another
ReentrantCalls(g) ==
    {c \in [op : {"rebaseBranch", "rebaseChange"}, sourceHead : Tips(g),
            targetCommit : 1..Len(g), targetHead : Tips(g)] :
        /\ c.targetHead # c.sourceHead
        /\ c.targetCommit \in {c.targetHead, g[c.targetHead].parent}
        /\ c.op = "rebaseChange" => c.targetCommit = c.targetHead}


NoLocals == [phase |-> "enter"]

ReentrantInit ==
    /\ graph \in ReentrantGraphs
    /\ nextTag = FirstFreeTag(graph)
    /\ \E calls \in [Procs -> ReentrantCalls(graph)] :
          /\ calls[1].op = "rebaseBranch"
          /\ call = [p \in Procs |->
                      [op |-> calls[p].op,
                       sourceHead |-> calls[p].sourceHead,
                       targetCommit |-> calls[p].targetCommit,
                       targetHead |-> calls[p].targetHead,
                       baseLen |-> Len(graph)]]
    /\ result = [p \in Procs |-> NoLocals]
    /\ log = [p \in Procs |-> <<>>]
    /\ pc = [p \in Procs |-> "enter"]
    /\ ComponentsIdle

\* what a call hands back to its caller
Returned(newHead, sourceChange, newBase, deleted, newSourceCommits) ==
    [status |-> "returned", newHead |-> newHead, sourceChange |-> sourceChange,
     newBase |-> newBase, deletedSourceCommits |-> deleted,
     newSourceCommits |-> newSourceCommits]

\* lines 204-209: the next round of the main loop starts on the first
\* commit left in sourcePath, or the loop is over
LoopPhase(g, st) ==
    IF st.sourcePath = <<>> THEN "compose"
    ELSE IF g[Head(st.sourcePath)].revision \in st.sourceSet THEN "rebase"
    ELSE "invert"

\* lines 205-209: the change of the commit and the changes it is rebased over
StartRound(g, st) ==
    IF LoopPhase(g, st) = "rebase"
    THEN [st EXCEPT !.change = g[Head(st.sourcePath)].change,
                    !.overs = st.inverses \o st.targetRebasePath]
    ELSE st

\* lines 122-177: the paths, the new base and the removal of the common
\* prefix; nothing is written and no algebra call is made
Enter(p) ==
    /\ pc[p] = "enter"
    /\ call[p].op = "rebaseBranch"
    /\ LET c == call[p]
           fca == findCommonAncestor(graph, WithPath(c.sourceHead),
                                     WithPath(c.targetHead))
           targetCommitIndex == IndexOf(fca.pathB, c.targetCommit)
           scan == ScanTargetPath(graph, fca.pathB, 1, targetCommitIndex,
                       {graph[fca.pathA[i]].revision : i \in 1..Len(fca.pathA)},
                       targetCommitIndex)
           newBase == fca.pathB[scan.newBaseIndex]
           targetRebasePath0 == TargetRebasePath(fca.pathB, scan.newBaseIndex)
           stripped == StripCommonPrefix(graph, fca.pathA, targetRebasePath0,
                           Min(Len(fca.pathA), Len(targetRebasePath0)))
           st == [sourcePath |-> stripped.sourcePath,
                  sourceSet |-> scan.sourceSet,
                  newBase |-> newBase,
                  deleted |-> SourcePathCopy(fca.pathA, stripped.sourcePath),
                  newHead |-> newBase,
                  inverses |-> <<>>,
                  targetRebasePath |-> TaggedPath(graph, stripped.targetRebasePath),
                  newSourceCommits |-> targetRebasePath0,
                  change |-> Undefined,
                  overs |-> <<>>]
       IN  IF ~BranchesRelated(fca.ancestor)
           THEN /\ result' = [result EXCEPT ![p] = [status |-> "assert"]]
                /\ pc' = [pc EXCEPT ![p] = "done"]
           ELSE IF targetCommitIndex = 0
           THEN /\ result' = [result EXCEPT ![p] =
                                Returned(c.sourceHead, Undefined, fca.ancestor,
                                         <<>>, <<>>)]
                /\ pc' = [pc EXCEPT ![p] = "done"]
           ELSE IF stripped.targetRebasePath = <<>>
           THEN /\ result' = [result EXCEPT ![p] = st]
                /\ pc' = [pc EXCEPT ![p] = "reparent"]
           ELSE /\ result' = [result EXCEPT ![p] = StartRound(graph, st)]
                /\ pc' = [pc EXCEPT ![p] = LoopPhase(graph, st)]
    /\ UNCHANGED <<graph, nextTag, call, log>>
    /\ UNCHANGED componentVars

\* lines 184-197: one commit is copied onto the last new source commit, or,
\* none being left, the call returns without a change
ReparentOne(p) ==
    /\ pc[p] = "reparent"
    /\ LET st == result[p]
       IN  IF st.sourcePath = <<>>
           THEN /\ result' = [result EXCEPT ![p] =
                                Returned(st.newSourceCommits[Len(st.newSourceCommits)],
                                         Undefined, st.newBase, st.deleted,
                                         st.newSourceCommits)]
                /\ pc' = [pc EXCEPT ![p] = "done"]
                /\ graph' = graph
           ELSE /\ graph' = Append(graph,
                                mintCommit(st.newSourceCommits[Len(st.newSourceCommits)],
                                           graph[Head(st.sourcePath)]))
                /\ result' = [result EXCEPT ![p] =
                                [st EXCEPT !.sourcePath = Tail(@),
                                           !.newSourceCommits = Append(@, Len(graph'))]]
                /\ pc' = pc
    /\ UNCHANGED <<nextTag, call, log>>
    /\ UNCHANGED componentVars

\* lines 205-208 and 270: one call of changeRebaser.rebase
RebaseOne(p) ==
    /\ pc[p] = "rebase"
    /\ LET st == result[p]
       IN  /\ log' = [log EXCEPT ![p] = Append(@, RebaseCall(st.change, Head(st.overs)))]
           /\ result' = [result EXCEPT ![p] =
                           [st EXCEPT !.change = Rebase(st.change, Head(st.overs)),
                                      !.overs = Tail(@)]]
           /\ pc' = [pc EXCEPT ![p] = IF Tail(st.overs) = <<>> THEN "mint" ELSE "rebase"]
    /\ UNCHANGED <<graph, nextTag, call>>
    /\ UNCHANGED componentVars

\* lines 210-217: the rebased commit is made and becomes the head
MintRebased(p) ==
    /\ pc[p] = "mint"
    /\ LET st == result[p]
           c == Head(st.sourcePath)
       IN  /\ graph' = RebasedCommit(graph, c, st.change, st.newHead)
           /\ result' = [result EXCEPT ![p] =
                           [st EXCEPT !.newHead = Len(graph'),
                                      !.newSourceCommits = Append(@, Len(graph')),
                                      !.targetRebasePath =
                                          Append(@, Tagged([graph[c] EXCEPT
                                                              !.change = st.change]))]]
           /\ pc' = [pc EXCEPT ![p] = "invert"]
    /\ UNCHANGED <<nextTag, call, log>>
    /\ UNCHANGED componentVars

\* lines 219-221: the commit is inverted and the inverse tagged with a new
\* revision; then the next round starts
InvertOne(p) ==
    /\ pc[p] = "invert"
    /\ LET st == result[p]
           c == Head(st.sourcePath)
           st1 == [st EXCEPT !.inverses = <<inverseFromCommit(graph[c], nextTag)>> \o @,
                             !.sourcePath = Tail(@)]
       IN  /\ log' = [log EXCEPT ![p] = Append(@, InvertCall(graph[c], TRUE))]
           /\ nextTag' = nextTag + 1
           /\ result' = [result EXCEPT ![p] = StartRound(graph, st1)]
           /\ pc' = [pc EXCEPT ![p] = LoopPhase(graph, st1)]
    /\ UNCHANGED <<graph, call>>
    /\ UNCHANGED componentVars

\* lines 224-232: the changes are composed and the call returns
ComposeAndReturn(p) ==
    /\ pc[p] = "compose"
    /\ LET st == result[p]
           composed == ComposedChanges(st.inverses, st.targetRebasePath)
       IN  /\ log' = [log EXCEPT ![p] = Append(@, ComposeCall(composed))]
           /\ result' = [result EXCEPT ![p] =
                           Returned(st.newHead, Compose(composed), st.newBase,
                                    st.deleted, st.newSourceCommits)]
           /\ pc' = [pc EXCEPT ![p] = "done"]
    /\ UNCHANGED <<graph, nextTag, call>>
    /\ UNCHANGED componentVars

\* lines 256-262: where rebaseChange goes on, the source path being
\* consumed from its end and the target path from its start
ChangePhase(st) ==
    IF st.sourcePath # <<>> THEN "invertBack"
    ELSE IF st.targetPath # <<>> THEN "forward"
    ELSE "done"

\* what rebaseChange has in result[p] at phase: its locals, or the change it
\* returns
ChangeLocals(st, phase) ==
    IF phase = "done" THEN [status |-> "returned", change |-> st.change] ELSE st

\* lines 249-254: the two paths of rebaseChange
EnterChange(p) ==
    /\ pc[p] = "enter"
    /\ call[p].op = "rebaseChange"
    /\ LET fca == findCommonAncestor(graph, WithPath(call[p].sourceHead),
                                     WithPath(call[p].targetHead))
           st == [sourcePath |-> fca.pathA,
                  targetPath |-> TaggedPath(graph, fca.pathB),
                  change |-> BaseChange(0), inverse |-> Tagged(graph[1])]
       IN  IF ~BranchesRelated(fca.ancestor)
           THEN /\ result' = [result EXCEPT ![p] = [status |-> "assert"]]
                /\ pc' = [pc EXCEPT ![p] = "done"]
           ELSE /\ result' = [result EXCEPT ![p] = ChangeLocals(st, ChangePhase(st))]
                /\ pc' = [pc EXCEPT ![p] = ChangePhase(st)]
    /\ UNCHANGED <<graph, nextTag, call, log>>
    /\ UNCHANGED componentVars

\* lines 258 and 273-282: the last commit left of the source path is
\* inverted and the inverse tagged with a new revision
InvertBack(p) ==
    /\ pc[p] = "invertBack"
    /\ LET st == result[p]
           c == graph[st.sourcePath[Len(st.sourcePath)]]
       IN  /\ log' = [log EXCEPT ![p] = Append(@, InvertCall(c, TRUE))]
           /\ result' = [result EXCEPT ![p] =
                           [st EXCEPT !.inverse = inverseFromCommit(c, nextTag)]]
           /\ nextTag' = nextTag + 1
           /\ pc' = [pc EXCEPT ![p] = "rebaseBack"]
    /\ UNCHANGED <<graph, call>>
    /\ UNCHANGED componentVars

\* lines 257-259: the change is rebased over that inverse
RebaseBack(p) ==
    /\ pc[p] = "rebaseBack"
    /\ LET st == result[p]
           st1 == [st EXCEPT !.change = Rebase(st.change, st.inverse),
                             !.sourcePath = Take(@, Len(@) - 1)]
       IN  /\ log' = [log EXCEPT ![p] = Append(@, RebaseCall(st.change, st.inverse))]
           /\ result' = [result EXCEPT ![p] = ChangeLocals(st1, ChangePhase(st1))]
           /\ pc' = [pc EXCEPT ![p] = ChangePhase(st1)]
    /\ UNCHANGED <<graph, nextTag, call>>
    /\ UNCHANGED componentVars

\* lines 262 and 270: the change is rebased over the next target commit
RebaseForward(p) ==
    /\ pc[p] = "forward"
    /\ LET st == result[p]
           st1 == [st EXCEPT !.change = Rebase(st.change, Head(st.targetPath)),
                             !.targetPath = Tail(@)]
       IN  /\ log' = [log EXCEPT ![p] =
                         Append(@, RebaseCall(st.change, Head(st.targetPath)))]
           /\ result' = [result EXCEPT ![p] = ChangeLocals(st1, ChangePhase(st1))]
           /\ pc' = [pc EXCEPT ![p] = ChangePhase(st1)]
    /\ UNCHANGED <<graph, nextTag, call>>
    /\ UNCHANGED componentVars

ReentrantNext ==
    \E p \in Procs :
        \/ Enter(p)
        \/ ReparentOne(p)
        \/ RebaseOne(p)
        \/ MintRebased(p)
        \/ InvertOne(p)
        \/ ComposeAndReturn(p)
        \/ EnterChange(p)
        \/ InvertBack(p)
        \/ RebaseBack(p)
        \/ RebaseForward(p)

ReentrantSpec == ReentrantInit /\ [][ReentrantNext]_vars

\* what call c returns when it is the only call made on g
Alone(g, c) ==
    IF c.op = "rebaseBranch"
    THEN rebaseBranch(g, FirstFreeTag(g), c.sourceHead, c.targetCommit,
                      c.targetHead, 0)
    ELSE rebaseChange(g, FirstFreeTag(g), BaseChange(0), c.sourceHead,
                      c.targetHead, 0)

\* call p has returned what it returns alone on the graph the calls started
\* with, up to the identity of the new commits and the tags minted for the
\* rollback inverses
SameAsAlone(p) ==
    \A alone \in {Alone(Take(graph, call[p].baseLen), call[p])},
       r \in {result[p]} :
        /\ r.status = alone.status
        /\ [k \in 1..Len(log[p]) |-> log[p][k].op]
             = [k \in 1..Len(alone.log) |-> alone.log[k].op]
        /\ (call[p].op = "rebaseChange" /\ r.status = "returned") =>
             WithoutMintedTags(r.change) = WithoutMintedTags(alone.change)
        /\ (call[p].op = "rebaseBranch" /\ r.status = "returned") =>
             /\ Outcome(graph, r, log[p]) = Outcome(alone.graph, alone, alone.log)
             /\ WithoutMintedTags(r.sourceChange)
                  = WithoutMintedTags(alone.sourceChange)
             /\ IF r.newSourceCommits = <<>>
                THEN r.newHead = alone.newHead
                ELSE r.newHead = r.newSourceCommits[Len(r.newSourceCommits)]

(***************************************************************************)
(* C34: reentrancy.  Two rebaseBranch calls, or a rebaseBranch and a       *)
(* rebaseChange call, over branches that share ancestors, interleaved in   *)
(* any order at the granularity of algebra calls and new commits, each     *)
(* return what they return when run alone (up to the identity of the new   *)
(* commits and the tags minted for the rollback inverses, which come from  *)
(* the one generator the calls share), and no commit that existed before   *)
(* the calls is ever written.                                              *)
(***************************************************************************)
C34_Reentrant ==
    /\ [](\A p \in Procs : pc[p] = "done" => SameAsAlone(p))
    /\ [][/\ Len(graph') >= Len(graph)
          /\ \A i \in 1..Len(graph) : graph'[i] = graph[i]]_vars

\* both calls have returned a composed change after steps that alternated:
\* the first call got other commit identities and other tags than it gets
\* alone
C34_Witness ==
    /\ \A p \in Procs : call[p].op = "rebaseBranch"
    /\ \A p \in Procs : pc[p] = "done" /\ result[p].status = "returned"
    /\ \A p \in Procs : result[p].sourceChange # Undefined
    /\ \A p \in Procs :
          \A alone \in {Alone(Take(graph, call[p].baseLen), call[p])} :
              /\ result[p].sourceChange # alone.sourceChange
              /\ p = 1 => result[p].newSourceCommits # alone.newSourceCommits
    /\ call[1].sourceHead # call[2].sourceHead

(***************************************************************************)
(* PendingStateManager (container-runtime/src/pendingStateManager.ts).     *)
(*                                                                         *)
(* manager holds the fields of the object, containerRuntime the runtime it *)
(* was constructed with and outcome what the last call on the manager      *)
(* returned or threw.  The functions below work on a "world", the pair of  *)
(* the manager and its runtime, because the runtime calls back into the    *)
(* manager (setFlushMode, flush, reSubmitFn).                              *)
(***************************************************************************)
\* most messages the runtime keeps pending; the queue holds up to two
\* states more
MaxPending == 2

FlushModes == {"Immediate", "TurnBased"}

\* the client sequence numbers of acked messages
ClientSequenceNumbers == 1..MaxPending

\* the local metadata a message is submitted with: one value per message of
\* a connection
LocalOpMetadata(clientSequenceNumber) == ToString(clientSequenceNumber)

\* the client id a new connection hands out: one the runtime does not have
NewClientId(clientId) == IF clientId = "A" THEN "B" ELSE "A"

\* the client id of the container the stashed state was taken from, and one
\* that a Rejoin message introduces
RemoteClientIds == {"S", "R"}

\* IPendingMessage (lines 20-28); every message is a FluidDataStoreOp to
\* one address, so messageType and content are not carried
PendingMessage(clientSequenceNumber, referenceSequenceNumber, localOpMetadata) ==
    [type |-> "message", flushMode |-> "none",
     clientSequenceNumber |-> clientSequenceNumber,
     referenceSequenceNumber |-> referenceSequenceNumber,
     localOpMetadata |-> localOpMetadata]

\* IPendingFlushMode (lines 34-37)
PendingFlushMode(flushMode) ==
    [type |-> "flushMode", flushMode |-> flushMode, clientSequenceNumber |-> 0,
     referenceSequenceNumber |-> 0, localOpMetadata |-> "none"]

\* IPendingFlush (lines 43-45)
PendingFlush ==
    [type |-> "flush", flushMode |-> "none", clientSequenceNumber |-> 0,
     referenceSequenceNumber |-> 0, localOpMetadata |-> "none"]

\* no ISequencedDocumentMessage
NoMessage ==
    [type |-> "undefined", clientId |-> "undefined", clientSequenceNumber |-> 0,
     batch |-> "undefined", contentsClientId |-> "undefined"]

\* no IPendingLocalState was handed to the constructor
NoLocalState == [given |-> FALSE, clientId |-> "undefined", pendingStates |-> <<>>]

\* the pending local state a container may be loaded with: an op that
\* client "S" made at sequence number 1
StashedStates ==
    {[given |-> TRUE, clientId |-> "S",
      pendingStates |-> <<PendingFlushMode("Immediate"),
                          PendingMessage(1, 1, "none")>>]}

MessagesOf(states) == SelectSeq(states, LAMBDA s : s.type = "message")

\* lines 70-96, 122-142
NewManager(initialFlushMode, initialLocalState) ==
    [pendingStates |-> <<PendingFlushMode(initialFlushMode)>>,
     initialStates |-> initialLocalState.pendingStates,
     previousClientIds |->
        IF initialLocalState.given /\ initialLocalState.clientId # "undefined"
        THEN <<initialLocalState.clientId>> ELSE <<>>,
     firstStashedCSN |->
        IF initialLocalState.given
        THEN MessagesOf(initialLocalState.pendingStates)[1].clientSequenceNumber
        ELSE -1,
     pendingMessagesCount |-> 0,
     isProcessingBatch |-> FALSE,
     pendingBatchBeginMessage |-> NoMessage,
     flushModeForNextMessage |-> initialFlushMode,
     clientId |-> "undefined"]

\* lines 106-108
hasPendingMessages(m) == m.pendingMessagesCount # 0

\* lines 155-176
onSubmitMessage(w, clientSequenceNumber, referenceSequenceNumber, localOpMetadata) ==
    [w EXCEPT !.manager.pendingStates =
                  Append(@, PendingMessage(clientSequenceNumber,
                                           referenceSequenceNumber, localOpMetadata)),
              !.manager.pendingMessagesCount = @ + 1]

\* lines 182-184
onFlushModeUpdated(w, flushMode) ==
    [w EXCEPT !.manager.pendingStates = Append(@, PendingFlushMode(flushMode))]

\* lines 189-204
onFlush(w) ==
    IF w.containerRuntime.flushMode = "Immediate"
    THEN w
    ELSE IF \/ w.manager.pendingStates = <<>>
            \/ w.manager.pendingStates[Len(w.manager.pendingStates)].type # "message"
         THEN w
         ELSE [w EXCEPT !.manager.pendingStates = Append(@, PendingFlush)]

\* the client sequence number the runtime gives the next message: one more
\* than that of the newest message still pending
NextClientSequenceNumber(m) ==
    IF MessagesOf(m.pendingStates) = <<>>
    THEN 1
    ELSE MessagesOf(m.pendingStates)[Len(MessagesOf(m.pendingStates))]
             .clientSequenceNumber + 1

\* ContainerRuntime.submit: the message goes out under the next client
\* sequence number and is handed to onSubmitMessage
RuntimeSubmit(w, referenceSequenceNumber, localOpMetadata) ==
    onSubmitMessage(w, NextClientSequenceNumber(w.manager),
                    referenceSequenceNumber, localOpMetadata)

\* ContainerRuntime.flush: "an explicit flush call ... is added to the
\* pending queue when flush is called on the ContainerRuntime" (lines 40-41)
RuntimeFlush(w) == onFlush(w)

\* ContainerRuntime.setFlushMode: a pending flushMode is added "when
\* setFlushMode is called on the ContainerRuntime and the FlushMode changes"
\* (lines 31-32); "changing the mode to Immediate ... also triggers a flush"
\* (line 419)
RuntimeSetFlushMode(w, flushMode) ==
    IF flushMode = w.containerRuntime.flushMode
    THEN w
    ELSE LET flushed == IF flushMode = "Immediate" THEN RuntimeFlush(w) ELSE w
         IN  onFlushModeUpdated(
                 [flushed EXCEPT !.containerRuntime.flushMode = flushMode], flushMode)

\* lines 209-230; applyStashedOp hands back the metadata "stashed"
RECURSIVE applyStashedOpsAt(_, _)
applyStashedOpsAt(w, seqNum) ==
    IF w.manager.initialStates = <<>>
    THEN [world |-> w, status |-> "returned"]
    ELSE LET nextState == Head(w.manager.initialStates)
             Pushed(s) == [w EXCEPT !.manager.initialStates = Tail(@),
                                    !.manager.pendingStates = Append(@, s)]
         IN  IF nextState.type = "message"
             THEN IF nextState.referenceSequenceNumber > seqNum
                  THEN [world |-> w, status |-> "returned"]
                  ELSE IF /\ nextState.referenceSequenceNumber > 0
                          /\ nextState.referenceSequenceNumber < seqNum
                       THEN [world |-> w, status |-> "threw"]
                       ELSE applyStashedOpsAt(
                                Pushed([nextState EXCEPT !.localOpMetadata = "stashed"]),
                                seqNum)
             ELSE applyStashedOpsAt(Pushed(nextState), seqNum)

\* lines 364-374 with peekNextPendingState (452-456): the states in front of
\* the next message are shifted off, the last flush mode and any flush among
\* them are remembered; an empty queue fails assertion 0x171
RECURSIVE DropUntilMessage(_, _, _)
DropUntilMessage(q, pendingFlushMode, pendingFlush) ==
    IF q = <<>>
    THEN [pendingStates |-> q, pendingFlushMode |-> pendingFlushMode,
          pendingFlush |-> pendingFlush, status |-> "0x171"]
    ELSE IF Head(q).type = "message"
         THEN [pendingStates |-> q, pendingFlushMode |-> pendingFlushMode,
               pendingFlush |-> pendingFlush, status |-> "ok"]
         ELSE DropUntilMessage(
                  Tail(q),
                  IF Head(q).type = "flushMode" THEN Head(q).flushMode
                                                ELSE pendingFlushMode,
                  pendingFlush \/ Head(q).type = "flush")

\* lines 349-400; began: pendingBatchBeginMessage was set to this message
maybeProcessBatchBegin(m, message) ==
    LET d == DropUntilMessage(m.pendingStates, "undefined", FALSE)
        m1 == [m EXCEPT !.pendingStates = d.pendingStates]
        m2 == IF d.pendingFlushMode # "undefined"
              THEN [m1 EXCEPT !.flushModeForNextMessage = d.pendingFlushMode]
              ELSE m1
    IN  IF d.status # "ok"
        THEN [manager |-> m1, status |-> d.status, began |-> FALSE]
        ELSE IF d.pendingFlushMode = "Immediate"
             THEN [manager |-> m2, status |-> "ok", began |-> FALSE]
             ELSE IF d.pendingFlushMode = "TurnBased" \/ d.pendingFlush
                  THEN IF m2.isProcessingBatch \/ m2.pendingBatchBeginMessage # NoMessage
                       THEN [manager |-> m2, status |-> "0x16b", began |-> FALSE]
                       ELSE [manager |->
                                [m2 EXCEPT !.pendingBatchBeginMessage = message,
                                           !.isProcessingBatch = TRUE],
                             status |-> "ok", began |-> TRUE]
                  ELSE [manager |-> m2, status |-> "ok", began |-> FALSE]

\* lines 406-447; every call is handed a message object of its own, so
\* pendingBatchBeginMessage === message holds exactly when the batch began
\* with this call
maybeProcessBatchEnd(m, message, began) ==
    LET Failed(code) == [manager |-> m, status |-> code]
        batchEnded == [manager |-> [m EXCEPT !.pendingBatchBeginMessage = NoMessage,
                                          !.isProcessingBatch = FALSE],
                    status |-> "ok"]
    IN  IF ~m.isProcessingBatch
        THEN [manager |-> m, status |-> "ok"]
        ELSE IF m.pendingStates = <<>>
        THEN Failed("0x171")
        ELSE IF Head(m.pendingStates).type = "message"
        THEN [manager |-> m, status |-> "ok"]
        ELSE IF Head(m.pendingStates).type = "flushMode"
        THEN Failed("0x2bd")
        ELSE IF m.pendingBatchBeginMessage = NoMessage
        THEN Failed("0x16d")
        ELSE IF began
        THEN IF m.pendingBatchBeginMessage.batch # "undefined"
             THEN Failed("0x16e") ELSE batchEnded
        ELSE IF m.pendingBatchBeginMessage.batch # "true"
        THEN Failed("0x16f")
        ELSE IF message.batch # "false"
        THEN Failed("0x170")
        ELSE batchEnded

\* what processMessage hands back (lines 241, 245, 275, 284)
Processed(w, status, localAck, localOpMetadata) ==
    [world |-> w, status |-> status, localAck |-> localAck,
     localOpMetadata |-> localOpMetadata]

\* lines 324-337 with the count decremented whether or not the numbers match
AckedCountAlways(m, matches) == [m EXCEPT !.pendingMessagesCount = @ - 1]

\* lines 324-337: the unacked count goes down only for a matching ack
AckedCount(m, matches) ==
    IF matches THEN [m EXCEPT !.pendingMessagesCount = @ - 1] ELSE m

\* lines 313-343
processPendingLocalMessage(w, message) ==
    LET b == maybeProcessBatchBegin(w.manager, message)
        q == b.manager.pendingStates
    IN  IF b.status # "ok"
        THEN Processed([w EXCEPT !.manager = b.manager], b.status, FALSE, "undefined")
        ELSE IF q = <<>>
        THEN Processed([w EXCEPT !.manager = b.manager], "0x171", FALSE, "undefined")
        ELSE IF Head(q).type # "message"
        THEN Processed([w EXCEPT !.manager = b.manager], "0x169", FALSE, "undefined")
        ELSE LET pendingState == Head(q)
                 matches == pendingState.clientSequenceNumber = message.clientSequenceNumber
                 m1 == AckedCount([b.manager EXCEPT !.pendingStates = Tail(@)], matches)
                 e == maybeProcessBatchEnd(m1, message, b.began)
             IN  IF ~matches
                 THEN Processed([w EXCEPT !.manager = m1,
                                          !.containerRuntime.closed = TRUE],
                                "returned", FALSE, "undefined")
                 ELSE IF e.status # "ok"
                 THEN Processed([w EXCEPT !.manager = e.manager], e.status,
                                FALSE, "undefined")
                 ELSE Processed([w EXCEPT !.manager = e.manager], "returned",
                                FALSE, pendingState.localOpMetadata)

\* isRuntimeMessage: the container message types
RuntimeMessageTypes == {"component", "chunkedOp", "rejoin"}

\* lines 287-306 for pending messages that are all FluidDataStoreOps to one
\* address
assertOpMatch(state, message, isOriginalClientId) ==
    IF message.type # "component"
    THEN "0x28c"
    ELSE IF /\ message.clientSequenceNumber # state.clientSequenceNumber
            /\ isOriginalClientId
         THEN "0x28d"
         ELSE "ok"

\* lines 280-284
RejoinOrNothing(w, message) ==
    Processed(
        IF /\ message.type = "rejoin"
           /\ message.contentsClientId \in Range(w.manager.previousClientIds)
           /\ message.clientId \notin Range(w.manager.previousClientIds)
        THEN [w EXCEPT !.manager.previousClientIds = Append(@, message.clientId)]
        ELSE w,
        "returned", FALSE, "undefined")

\* lines 254-285
processRemoteMessage(w, message) ==
    LET previous == w.manager.previousClientIds
        isOriginalClientId ==
            /\ previous # <<>>
            /\ message.clientId = previous[1]
            /\ message.clientSequenceNumber >= w.manager.firstStashedCSN
        isNewClientId == \E i \in 2..Len(previous) : previous[i] = message.clientId
        messages == MessagesOf(w.manager.pendingStates)
        \* the queue after the states up to and including the first message
        \* were shifted
        rest == IF messages = <<>> THEN <<>>
                ELSE LET first == CHOOSE i \in 1..Len(w.manager.pendingStates) :
                                     /\ w.manager.pendingStates[i].type = "message"
                                     /\ \A j \in 1..(i - 1) :
                                           w.manager.pendingStates[j].type # "message"
                     IN  SubSeq(w.manager.pendingStates, first + 1,
                                Len(w.manager.pendingStates))
        shifted == [w EXCEPT !.manager.pendingStates = rest]
    IN  IF message.type \notin RuntimeMessageTypes
        THEN Processed(w, "returned", FALSE, "undefined")
        ELSE IF isOriginalClientId \/ isNewClientId
        THEN IF w.manager.clientId # "undefined"
             THEN Processed(w, "0x28b", FALSE, "undefined")
             ELSE IF messages = <<>>
             THEN RejoinOrNothing(shifted, message)
             ELSE IF assertOpMatch(messages[1], message, isOriginalClientId) # "ok"
             THEN Processed(shifted,
                            assertOpMatch(messages[1], message, isOriginalClientId),
                            FALSE, "undefined")
             ELSE Processed(shifted, "returned", TRUE, messages[1].localOpMetadata)
        ELSE RejoinOrNothing(w, message)

\* lines 238-249
processMessage(w, message, local) ==
    IF message.type = "chunkedOp"
    THEN Processed(w, "returned", FALSE, "undefined")
    ELSE IF local
         THEN processPendingLocalMessage(w, message)
         ELSE processRemoteMessage(w, message)

\* the messages of the queue, by position
MessageIndices(q) == {i \in 1..Len(q) : q[i].type = "message"}

\* lines 490-511: count states are shifted off and replayed (the queue holds
\* at least count states, shift never meets an empty queue).  reSubmitFn
\* "might add more items in the queue" (lines 488-489): it submits the
\* message again or it drops it; resubmitted holds the positions it submits.
\* The replay is the first thing sent on the connection, so the messages go
\* out under the client sequence numbers 1, 2, ...
RECURSIVE ReplayLoop(_, _, _, _, _)
ReplayLoop(w, pendingStatesCount, position, resubmitted, replayed) ==
    IF pendingStatesCount = 0 \/ w.manager.pendingStates = <<>>
    THEN [world |-> w, replayed |-> replayed]
    ELSE LET pendingState == Head(w.manager.pendingStates)
             shifted == [w EXCEPT !.manager.pendingStates = Tail(@)]
             after ==
                 CASE pendingState.type = "message" ->
                        IF position \in resubmitted
                        THEN onSubmitMessage(shifted,
                                             shifted.manager.pendingMessagesCount + 1,
                                             pendingState.referenceSequenceNumber,
                                             pendingState.localOpMetadata)
                        ELSE shifted
                   [] pendingState.type = "flushMode" ->
                        RuntimeSetFlushMode(shifted, pendingState.flushMode)
                   [] pendingState.type = "flush" -> RuntimeFlush(shifted)
         IN  ReplayLoop(after, pendingStatesCount - 1, position + 1, resubmitted,
                        Append(replayed, pendingState))

\* lines 472 and 490 with the loop running until the queue is empty or
\* one state more than the queue held was replayed
ReplayCountToEnd(q) == Len(q) + 1

\* line 472
ReplayCount(q) == Len(q)

\* lines 462-515
replayPendingStates(w, resubmitted) ==
    LET Replayed(world, status, replayed) ==
            [world |-> world, status |-> status, replayed |-> replayed]
        w1 == [w EXCEPT !.manager.clientId = w.containerRuntime.clientId]
        pendingStatesCount == ReplayCount(w1.manager.pendingStates)
        savedFlushMode == w1.containerRuntime.flushMode
        w2 == RuntimeSetFlushMode(
                  [w1 EXCEPT !.manager.pendingMessagesCount = 0],
                  w1.manager.flushModeForNextMessage)
        loop == ReplayLoop(w2, pendingStatesCount, 1, resubmitted, <<>>)
    IN  IF ~w.containerRuntime.connected
        THEN Replayed(w, "0x172", <<>>)
        ELSE IF w.manager.clientId = w.containerRuntime.clientId
        THEN Replayed(w, "0x173", <<>>)
        ELSE IF w1.manager.initialStates # <<>>
        THEN Replayed(w1, "0x174", <<>>)
        ELSE IF w1.manager.pendingStates = <<>>
        THEN Replayed(w1, "returned", <<>>)
        ELSE Replayed(RuntimeSetFlushMode(loop.world, savedFlushMode), "returned",
                      loop.replayed)

\* what a call on the manager left behind
CallOutcome(op, status, localAck, localOpMetadata, replayed) ==
    [op |-> op, message |-> NoMessage, status |-> status, localAck |-> localAck,
     localOpMetadata |-> localOpMetadata, replayed |-> replayed]

\* a call that returns nothing has returned
NothingReturned == CallOutcome("void", "returned", FALSE, "undefined", <<>>)

World == [manager |-> manager, containerRuntime |-> containerRuntime]

\* a failed assertion or closeFn ends the container: no call follows it
Running == outcome.status \in {"none", "returned"} /\ ~containerRuntime.closed

\* the rebase engine is not in use
RebaseIdle ==
    /\ graph = <<>>
    /\ nextTag = 0
    /\ call = NoCall
    /\ result = [status |-> "none"]
    /\ log = <<>>
    /\ pc = "idle"

\* the state after the constructor (lines 122-142); the runtime hands its
\* own flush mode over and is not connected yet
Constructed(localStates) ==
    /\ RebaseIdle
    /\ OrdererInit
    /\ CheckpointIdle
    /\ \E initialFlushMode \in FlushModes, initialLocalState \in localStates :
          /\ manager = NewManager(initialFlushMode, initialLocalState)
          /\ containerRuntime = [flushMode |-> initialFlushMode,
                                 clientId |-> "undefined",
                                 connected |-> FALSE, closed |-> FALSE]
    /\ outcome = CallOutcome("none", "none", FALSE, "undefined", <<>>)

\* a container that starts without pending local state
PendingInit == Constructed({NoLocalState})

\* a container that is loaded with the pending local state of an earlier one
StashedInit == Constructed(StashedStates)

\* the sequence numbers applyStashedOpsAt is called with
SequenceNumbers == 0..2

\* an ISequencedDocumentMessage
Message(type, clientId, clientSequenceNumber, batch, contentsClientId) ==
    [type |-> type, clientId |-> clientId,
     clientSequenceNumber |-> clientSequenceNumber, batch |-> batch,
     contentsClientId |-> contentsClientId]

\* acks of the container's own messages: ops with any batch metadata and a
\* chunk of a chunked op
LocalMessages ==
    {Message("component", "A", n, batch, "undefined") :
        n \in ClientSequenceNumbers, batch \in {"undefined", "true", "false"}}
    \cup {Message("chunkedOp", "A", 1, "undefined", "undefined")}

\* messages of other clients: ops of the stashed and of a rejoined client,
\* the Rejoin of the stashed client under a new id, a system message
RemoteMessages ==
    {Message("component", clientId, n, "undefined", "undefined") :
        clientId \in RemoteClientIds, n \in ClientSequenceNumbers}
    \cup {Message("rejoin", "R", 1, "undefined", "S"),
          Message("join", "undefined", 1, "undefined", "undefined")}

\* the runtime submits a message (lines 155-176)
OnSubmitMessage ==
    /\ Running
    /\ Len(MessagesOf(manager.pendingStates)) < MaxPending
    /\ NextClientSequenceNumber(manager) <= MaxPending
    /\ manager.pendingMessagesCount < MaxPending
    /\ \E w \in {RuntimeSubmit(World, 0,
                     LocalOpMetadata(NextClientSequenceNumber(manager)))} :
            /\ manager' = w.manager
            /\ containerRuntime' = w.containerRuntime
    /\ outcome' = NothingReturned
    /\ UNCHANGED notPendingVars

\* the runtime's flush mode is changed (lines 182-184)
OnFlushModeUpdated ==
    /\ Running
    /\ Len(manager.pendingStates) < MaxPending + 2
    /\ \E flushMode \in FlushModes \ {containerRuntime.flushMode} :
        \E w \in {RuntimeSetFlushMode(World, flushMode)} :
            /\ manager' = w.manager
            /\ containerRuntime' = w.containerRuntime
    /\ outcome' = NothingReturned
    /\ UNCHANGED notPendingVars

\* the runtime is flushed (lines 189-204)
OnFlush ==
    /\ Running
    /\ Len(manager.pendingStates) < MaxPending + 2
    /\ \E w \in {RuntimeFlush(World)} :
            /\ manager' = w.manager
            /\ containerRuntime' = w.containerRuntime
    /\ outcome' = NothingReturned
    /\ UNCHANGED notPendingVars

\* lines 209-230; the awaits of applyStashedOp are not interleaved with
\* other calls
ApplyStashedOpsAt ==
    /\ Running
    /\ \E seqNum \in SequenceNumbers :
        \E r \in {applyStashedOpsAt(World, seqNum)} :
            /\ manager' = r.world.manager
            /\ containerRuntime' = r.world.containerRuntime
            /\ outcome' = IF r.status = "returned"
                           THEN NothingReturned
                           ELSE CallOutcome("applyStashedOpsAt", r.status, FALSE,
                                            "undefined", <<>>)
    /\ UNCHANGED notPendingVars

\* lines 238-249
ProcessMessage ==
    /\ Running
    /\ \E local \in BOOLEAN :
        \E message \in IF local THEN LocalMessages ELSE RemoteMessages :
          \E r \in {processMessage(World, message, local)} :
            /\ manager' = r.world.manager
            /\ containerRuntime' = r.world.containerRuntime
            /\ outcome' = [CallOutcome("processMessage", r.status, r.localAck,
                                       r.localOpMetadata, <<>>)
                           EXCEPT !.op = IF local THEN "processMessage(local)"
                                                  ELSE "processMessage(remote)",
                                  !.message = IF local THEN message ELSE NoMessage]
    /\ UNCHANGED notPendingVars

\* lines 462-515
ReplayPendingStates ==
    /\ Running
    /\ Len(manager.pendingStates) <= MaxPending + 2
    /\ \E resubmitted \in SUBSET MessageIndices(manager.pendingStates) :
        \E r \in {replayPendingStates(World, resubmitted)} :
            /\ manager' = r.world.manager
            /\ containerRuntime' = r.world.containerRuntime
            /\ outcome' = CallOutcome("replayPendingStates", r.status, FALSE,
                                      "undefined", r.replayed)
    /\ UNCHANGED notPendingVars

\* a connection comes up under a new client id
SetConnectionState ==
    /\ Running
    /\ \E clientId \in {NewClientId(containerRuntime.clientId)} :
          containerRuntime' = [containerRuntime EXCEPT !.connected = TRUE,
                                                       !.clientId = clientId]
    /\ outcome' = NothingReturned
    /\ UNCHANGED manager
    /\ UNCHANGED notPendingVars

PendingNext ==
    \/ OnSubmitMessage
    \/ OnFlushModeUpdated
    \/ OnFlush
    \/ ApplyStashedOpsAt
    \/ ProcessMessage
    \/ ReplayPendingStates
    \/ SetConnectionState

PendingSpec == PendingInit /\ [][PendingNext]_vars

StashedSpec == StashedInit /\ [][PendingNext]_vars

(***************************************************************************)
(* C35                                                                     *)
(***************************************************************************)
\* C35: after any sequence of calls that returned, hasPendingMessages() is
\* true exactly when the pending state queue holds an entry of type
\* "message".
C35_CountTracksQueue ==
    Running =>
        (hasPendingMessages(manager) <=> MessageIndices(manager.pendingStates) # {})

(***************************************************************************)
(* C36                                                                     *)
(***************************************************************************)
\* the queue from its first entry of type "message" on
FromOldestMessage(q) ==
    IF MessageIndices(q) = {}
    THEN <<>>
    ELSE SubSeq(q, CHOOSE i \in MessageIndices(q) :
                       \A j \in MessageIndices(q) : i <= j, Len(q))

\* the assertions of maybeProcessBatchEnd and of the peek it makes
BatchEndAssertions == {"0x171", "0x2bd", "0x16d", "0x16e", "0x16f", "0x170"}

\* the step is a local ack handed to processMessage
LocalAckStep == outcome'.op = "processMessage(local)"

\* C36 as stated: every local ack removes the oldest pending message with
\* the flushMode and flush entries in front of it; a matching client
\* sequence number decrements the unacked count and returns that entry's
\* localOpMetadata, another one calls closeFn and leaves the count; with no
\* message in the queue an assertion fails.
C36_LocalAckFifo ==
    [][LocalAckStep =>
        LET oldest == FromOldestMessage(manager.pendingStates)
        IN  IF oldest = <<>>
            THEN outcome'.status # "returned"
            ELSE /\ manager'.pendingStates = Tail(oldest)
                 /\ IF oldest[1].clientSequenceNumber =
                           outcome'.message.clientSequenceNumber
                    THEN /\ manager'.pendingMessagesCount =
                                manager.pendingMessagesCount - 1
                         /\ outcome'.status = "returned"
                         /\ outcome'.localOpMetadata = oldest[1].localOpMetadata
                    ELSE /\ containerRuntime'.closed
                         /\ manager'.pendingMessagesCount =
                                manager.pendingMessagesCount]_vars

\* C36, amended: the above holds for acks that are not chunks of a chunked
\* op, which leave the queue alone, and as long as the batch bookkeeping
\* agrees: when assertion 0x16b fails the oldest message stays in the queue
\* and the count is kept, and when an assertion of maybeProcessBatchEnd
\* fails the message is removed and counted but nothing is returned.
C36_LocalAckFifoUnlessBatchAssert ==
    [][LocalAckStep =>
        LET oldest == FromOldestMessage(manager.pendingStates)
            status == outcome'.status
        IN  IF outcome'.message.type = "chunkedOp"
            THEN /\ manager' = manager
                 /\ status = "returned"
                 /\ outcome'.localOpMetadata = "undefined"
            ELSE IF oldest = <<>>
            THEN /\ status = "0x171"
                 /\ manager'.pendingStates = <<>>
            ELSE IF status = "0x16b"
            THEN /\ manager'.pendingStates = oldest
                 /\ manager'.pendingMessagesCount = manager.pendingMessagesCount
            ELSE /\ manager'.pendingStates = Tail(oldest)
                 /\ IF oldest[1].clientSequenceNumber =
                           outcome'.message.clientSequenceNumber
                    THEN /\ manager'.pendingMessagesCount =
                                manager.pendingMessagesCount - 1
                         /\ ~containerRuntime'.closed
                         /\ \/ /\ status = "returned"
                               /\ outcome'.localOpMetadata =
                                      oldest[1].localOpMetadata
                            \/ /\ status \in BatchEndAssertions
                               /\ outcome'.localOpMetadata = "undefined"
                    ELSE /\ containerRuntime'.closed
                         /\ status = "returned"
                         /\ outcome'.localOpMetadata = "undefined"
                         /\ manager'.pendingMessagesCount =
                                manager.pendingMessagesCount]_vars

\* a local ack of the first message of a batch was matched and returned its
\* metadata, and a later message is still pending
C36_Witness ==
    /\ outcome.op = "processMessage(local)"
    /\ outcome.status = "returned"
    /\ outcome.localOpMetadata = "1"
    /\ manager.isProcessingBatch
    /\ MessageIndices(manager.pendingStates) # {}
    /\ manager.pendingMessagesCount = 1

(***************************************************************************)
(* C37                                                                     *)
(***************************************************************************)
\* the step is a call of replayPendingStates
ReplayStep == outcome'.op = "replayPendingStates"

\* C37: a replay that returns has replayed exactly the states the queue held
\* when it was called, each once and in queue order; what is in the queue
\* afterwards was appended during the replay and was not replayed; the
\* runtime's flush mode is what it was before the call; a call for the
\* client id of the previous call fails an assertion.
C37_ReplayExactlyOnce ==
    [][ReplayStep =>
        /\ manager.clientId = containerRuntime.clientId =>
               outcome'.status \in {"0x172", "0x173"}
        /\ outcome'.status = "returned" =>
               /\ outcome'.replayed = manager.pendingStates
               /\ containerRuntime'.flushMode = containerRuntime.flushMode
               /\ manager'.pendingMessagesCount =
                      Len(MessagesOf(manager'.pendingStates))
               /\ \A i \in MessageIndices(manager'.pendingStates) :
                      \E j \in MessageIndices(manager.pendingStates) :
                          manager'.pendingStates[i].localOpMetadata =
                              manager.pendingStates[j].localOpMetadata]_vars

\* a replay of a queue with a flush mode, two messages and a flush has
\* returned; messages that were resubmitted are pending again
C37_Witness ==
    /\ outcome.op = "replayPendingStates"
    /\ outcome.status = "returned"
    /\ Len(MessagesOf(outcome.replayed)) = 2
    /\ \E i \in 1..Len(outcome.replayed) : outcome.replayed[i].type = "flush"
    /\ \E i \in 1..Len(outcome.replayed) : outcome.replayed[i].type = "flushMode"
    /\ MessageIndices(manager.pendingStates) # {}
    /\ manager.clientId = containerRuntime.clientId

(***************************************************************************)
(* LocalOrdererManager (local-server/src/localOrdererManager.ts).          *)
(*                                                                         *)
(* JavaScript runs a function to its next await without interruption, so   *)
(* a getOrderer call, which has no await, is one step; the promise that    *)
(* createLocalOrderer returns settles in a later step, and close() is      *)
(* interleaved with everything else at its await.  A promise is its index  *)
(* in orderers; strings are sequences of characters.                       *)
(***************************************************************************)
\* getOrderer calls that are made
MaxCallers == 3
\* close calls that are made
MaxCloses == 1

\* tenant and document ids; two of the pairs give the same key
TenantIds == {<<"t">>, <<"t", "/", "d">>}
DocumentIds == {<<"d">>, <<"d", "/", "d">>}

\* line 72: `${tenantId}/${documentId}`
OrdererKey(tenantId, documentId) == tenantId \o <<"/">> \o documentId

\* lines 74-75 with the lookup never finding an entry
MapGetNothing(map, key) == 0

\* lines 74-75: ordererMap.get(key), 0 for undefined
MapGet(map, key) ==
    IF \E e \in map : e.key = key
    THEN (CHOOSE e \in map : e.key = key).orderer
    ELSE 0

\* line 77: ordererMap.set(key, orderer)
MapSet(map, key, orderer) ==
    {e \in map : e.key # key} \cup {[key |-> key, orderer |-> orderer]}

\* lines 71-81; createLocalOrderer (83-147) is async: the call hands back a
\* pending promise at once
GetOrderer ==
    /\ Len(callers) < MaxCallers
    /\ \E tenantId \in TenantIds, documentId \in DocumentIds :
        LET key == OrdererKey(tenantId, documentId)
            found == MapGet(ordererMap, key)
        IN  IF found = 0
            THEN /\ orderers' = Append(orderers,
                                       [key |-> key, tenantId |-> tenantId,
                                        documentId |-> documentId,
                                        state |-> "pending", closed |-> FALSE,
                                        epoch |-> cleared])
                 /\ ordererMap' = MapSet(ordererMap, key, Len(orderers) + 1)
                 /\ callers' = Append(callers,
                                      [key |-> key, tenantId |-> tenantId,
                                       orderer |-> Len(orderers) + 1,
                                       epoch |-> cleared])
            ELSE /\ callers' = Append(callers,
                                      [key |-> key, tenantId |-> tenantId,
                                       orderer |-> found, epoch |-> cleared])
                 /\ UNCHANGED <<ordererMap, orderers>>
    /\ UNCHANGED <<closing, cleared>>
    /\ UNCHANGED notOrdererVars

\* createLocalOrderer comes to its end (line 146) or one of its awaits
\* throws (lines 84-110)
SettleOrderer ==
    /\ \E p \in 1..Len(orderers), state \in {"resolved", "rejected"} :
        /\ orderers[p].state = "pending"
        /\ orderers' = [orderers EXCEPT ![p].state = state]
    /\ UNCHANGED <<ordererMap, callers, closing, cleared>>
    /\ UNCHANGED notOrdererVars

\* lines 46-49: close() starts to wait for the orderers that are in the map
CloseBegin ==
    /\ ~closing.active
    /\ cleared < MaxCloses
    /\ closing' = [active |-> TRUE, awaiting |-> {e.orderer : e \in ordererMap},
                   failed |-> FALSE]
    /\ UNCHANGED <<ordererMap, orderers, callers, cleared>>
    /\ UNCHANGED notOrdererVars

\* line 48: an orderer that a close() waits for is there and is closed; the
\* waits of a close() that has failed go on
CloseOrderer ==
    /\ \E p \in closing.awaiting :
        /\ orderers[p].state = "resolved"
        /\ orderers' = [orderers EXCEPT ![p].closed = TRUE]
        /\ closing' = [closing EXCEPT !.awaiting = @ \ {p}]
    /\ UNCHANGED <<ordererMap, callers, cleared>>
    /\ UNCHANGED notOrdererVars

\* lines 47-49: a promise that close() waits for is rejected, Promise.all
\* rejects and close() throws before line 50
CloseFail ==
    /\ closing.active
    /\ \E p \in closing.awaiting : orderers[p].state = "rejected"
    /\ closing' = [closing EXCEPT !.active = FALSE, !.failed = TRUE]
    /\ UNCHANGED <<ordererMap, orderers, callers, cleared>>
    /\ UNCHANGED notOrdererVars

\* line 50: every orderer was closed, the map is cleared
CloseEnd ==
    /\ closing.active
    /\ closing.awaiting = {}
    /\ ordererMap' = {}
    /\ closing' = NotClosing
    /\ cleared' = cleared + 1
    /\ UNCHANGED <<orderers, callers>>
    /\ UNCHANGED notOrdererVars

OrdererNext ==
    \/ GetOrderer
    \/ SettleOrderer
    \/ CloseBegin
    \/ CloseOrderer
    \/ CloseFail
    \/ CloseEnd

\* only the LocalOrdererManager is in use
OrdererStart ==
    /\ RebaseIdle
    /\ PendingIdle
    /\ OrdererInit
    /\ CheckpointIdle

OrdererSpec == OrdererStart /\ [][OrdererNext]_vars

(***************************************************************************)
(* C38                                                                     *)
(***************************************************************************)
\* C38: between two clearings of the map createLocalOrderer runs at most
\* once for a key, every getOrderer call for that key is handed the promise
\* of that run, whether it is pending, resolved or rejected, and the map
\* holds that promise until close() clears it.
C38_OneOrdererPerKey ==
    /\ \A p, q \in 1..Len(orderers) :
          /\ orderers[p].key = orderers[q].key
          /\ orderers[p].epoch = orderers[q].epoch
          => p = q
    /\ \A c \in 1..Len(callers) :
          /\ orderers[callers[c].orderer].key = callers[c].key
          /\ orderers[callers[c].orderer].epoch = callers[c].epoch
    /\ \A c, d \in 1..Len(callers) :
          /\ callers[c].key = callers[d].key
          /\ callers[c].epoch = callers[d].epoch
          => callers[c].orderer = callers[d].orderer
    /\ \A p \in 1..Len(orderers) :
          orderers[p].epoch = cleared =>
              [key |-> orderers[p].key, orderer |-> p] \in ordererMap

\* two calls with different tenant and document ids but the same key were
\* handed one promise, which is rejected; an earlier call for that key was
\* handed another promise, before close() cleared the map
C38_Witness ==
    \E c, d, e \in 1..Len(callers) :
        /\ c # d
        /\ callers[c].tenantId # callers[d].tenantId
        /\ callers[c].orderer = callers[d].orderer
        /\ orderers[callers[c].orderer].state = "rejected"
        /\ callers[e].key = callers[c].key
        /\ callers[e].orderer # callers[c].orderer
        /\ cleared = 1

(***************************************************************************)
(* CheckpointManager.write without getDeltasViaAlfred                      *)
(* (lambdas/src/scribe/checkpointManager.ts).                              *)
(*                                                                         *)
(* Every await of write is a step.  opCollection is the set of sequence    *)
(* numbers of the stored ops, documentRepository and checkpointRepository  *)
(* hold the number of the checkpoint last written to the global and to the *)
(* local database (0: none), writeCall is the call under way.              *)
(***************************************************************************)
\* write calls that are made
MaxWrites == 2
\* highest sequence number of an op
MaxOps == 2
\* line 123: maxRetries of the insert
MaxRetries == 3

\* a CheckpointManager with or without local checkpoints (lines 24-38)
CheckpointInit ==
    /\ checkpointManager \in [localCheckpointEnabled : BOOLEAN]
    /\ opCollection = {}
    /\ documentRepository = 0
    /\ checkpointRepository = 0
    /\ writeCall = NoWrite

\* lines 43-48, 115-119: write is called; without pending ops the insert is
\* skipped
WriteBegin ==
    /\ writeCall.pc \in {"idle", "returned", "threw"}
    /\ writeCall.checkpoint < MaxWrites
    /\ \E protocolHead \in 0..MaxOps, pending \in SUBSET (1..MaxOps),
          noActiveClients \in BOOLEAN :
        writeCall' = [NoWrite EXCEPT
                        !.pc = IF pending = {} THEN "checkpoint" ELSE "insert",
                        !.checkpoint = writeCall.checkpoint + 1,
                        !.protocolHead = protocolHead,
                        !.pending = pending,
                        !.noActiveClients = noActiveClients]
    /\ UNCHANGED <<checkpointManager, opCollection, documentRepository,
                   checkpointRepository>>
    /\ UNCHANGED notCheckpointVars

\* lines 119-129: insertMany under runWithRetry.  An attempt stores the ops,
\* or fails with the duplicate key error 11000, which is ignored (the insert
\* is unordered, the ops that were not there yet are stored), or fails with
\* another error and is retried until maxRetries attempts were repeated.
InsertPending ==
    /\ writeCall.pc = "insert"
    /\ \/ /\ opCollection' = opCollection \cup writeCall.pending
          /\ \E how \in {"stored", "duplicates ignored"} :
                writeCall' = [writeCall EXCEPT !.pc = "checkpoint",
                                               !.inserted = how]
       \/ /\ writeCall.retryCount < MaxRetries
          /\ writeCall' = [writeCall EXCEPT !.retryCount = @ + 1]
          /\ UNCHANGED opCollection
       \/ /\ writeCall.retryCount >= MaxRetries
          /\ writeCall' = [writeCall EXCEPT !.pc = "threw"]
          /\ UNCHANGED opCollection
    /\ UNCHANGED <<checkpointManager, documentRepository, checkpointRepository>>
    /\ UNCHANGED notCheckpointVars

\* lines 183-201: updateOne(...).catch(log): the error of a failed update
\* is logged and the promise resolves
UpdateOne(stored, checkpoint, succeeds) ==
    IF succeeds
    THEN [stored |-> checkpoint, checkpointWrite |-> "written", pc |-> "next"]
    ELSE [stored |-> stored, checkpointWrite |-> "failed", pc |-> "next"]

\* lines 143-169: the checkpoint goes to the global collection when local
\* checkpoints are off or there is no checkpoint repository (146-150) or no
\* client is active (167), else to the local one (152-153).
\* localCheckpointEnabled stands for both conditions of line 146.
WriteCheckpointState ==
    /\ writeCall.pc = "checkpoint"
    /\ \E succeeds \in BOOLEAN :
        LET isLocal == /\ checkpointManager.localCheckpointEnabled
                       /\ ~writeCall.noActiveClients
            u == UpdateOne(IF isLocal THEN checkpointRepository
                                      ELSE documentRepository,
                           writeCall.checkpoint, succeeds)
            removesLocal == /\ checkpointManager.localCheckpointEnabled
                            /\ writeCall.noActiveClients
        IN  /\ IF isLocal
               THEN /\ checkpointRepository' = u.stored
                    /\ UNCHANGED documentRepository
               ELSE /\ documentRepository' = u.stored
                    /\ UNCHANGED checkpointRepository
            /\ writeCall' = [writeCall EXCEPT
                               !.checkpointWrite = u.checkpointWrite,
                               !.pc = IF u.pc = "threw" THEN "threw"
                                      ELSE IF removesLocal THEN "removeLocal"
                                      ELSE "delete"]
    /\ UNCHANGED <<checkpointManager, opCollection>>
    /\ UNCHANGED notCheckpointVars

\* lines 154-166: with no active client the local checkpoint is removed; an
\* error is logged.  The removal is requested before the global write and
\* awaited after it; the two touch different collections.
RemoveLocalCheckpoint ==
    /\ writeCall.pc = "removeLocal"
    /\ \E succeeds \in BOOLEAN :
          checkpointRepository' = IF succeeds THEN 0 ELSE checkpointRepository
    /\ writeCall' = [writeCall EXCEPT !.pc = "delete"]
    /\ UNCHANGED <<checkpointManager, opCollection, documentRepository>>
    /\ UNCHANGED notCheckpointVars

\* lines 134-139: deleteMany of the ops up to protocolHead; its error is
\* the error of write
DeleteSummarized ==
    /\ writeCall.pc = "delete"
    /\ \E succeeds \in BOOLEAN :
        IF succeeds
        THEN /\ opCollection' = {n \in opCollection : n > writeCall.protocolHead}
             /\ writeCall' = [writeCall EXCEPT !.pc = "returned",
                                               !.deleteIssued = TRUE]
        ELSE /\ UNCHANGED opCollection
             /\ writeCall' = [writeCall EXCEPT !.pc = "threw",
                                               !.deleteIssued = TRUE]
    /\ UNCHANGED <<checkpointManager, documentRepository, checkpointRepository>>
    /\ UNCHANGED notCheckpointVars

CheckpointNext ==
    \/ WriteBegin
    \/ InsertPending
    \/ WriteCheckpointState
    \/ RemoveLocalCheckpoint
    \/ DeleteSummarized

\* only the CheckpointManager is in use
CheckpointStart ==
    /\ RebaseIdle
    /\ PendingIdle
    /\ OrdererInit
    /\ CheckpointInit

CheckpointSpec == CheckpointStart /\ [][CheckpointNext]_vars

(***************************************************************************)
(* C39                                                                     *)
(***************************************************************************)
\* C39: a write call issues the deletion of the summarized ops only after
\* its pending ops were inserted and its checkpoint was written
\* successfully; a call whose checkpoint write failed never deletes.
C39_DeleteAfterCheckpointWritten ==
    writeCall.deleteIssued =>
        /\ writeCall.pending # {} => writeCall.inserted # "no"
        /\ writeCall.checkpointWrite = "written"
====
